---- MODULE Spec2Model ----
(***************************************************************************)
(* Model of the flight-data analysis pipeline (data_processor.py) and of   *)
(* the acquisition layer that feeds it (data_collector.py).                *)
(*                                                                         *)
(* Prices are held in quarter currency units (40 stands for 10.00): the    *)
(* input prices are whole units, a route median of whole units is a        *)
(* multiple of 1/2 and the overall median of such values a multiple of     *)
(* 1/4, so every stored price is an integer here and the float arithmetic  *)
(* of the source is exact on these values.  Quartiles are carried times 4  *)
(* and medians of cleaned prices times 2 for the same reason.              *)
(***************************************************************************)
EXTENDS Integers, Sequences, FiniteSets, TLC

VARIABLES raw_data, processed_data, insights, raised, lastOp, loads,
          flight_data, acq, ran

vars == <<raw_data, processed_data, insights, raised, lastOp, loads,
          flight_data, acq, ran>>

(***************************************************************************)
(* Configuration (config.py)                                               *)
(***************************************************************************)
AUSTRALIAN_CITIES ==
    {"SYD", "MEL", "BNE", "PER", "ADL", "DRW", "OOL", "CNS", "CBR", "HBA"}

POPULAR_INTERNATIONAL_DESTINATIONS ==
    {"AKL", "SIN", "DPS", "HND", "HKG", "LAX", "LHR", "DXB", "BKK", "KUL"}

(***************************************************************************)
(* Tables (pandas DataFrames)                                              *)
(***************************************************************************)
\* a missing price (NaN / None)
NaN == -1

\* value of a field whose column the table does not have
NA == "NA"
NAInt == -2

RequiredColumns == {"origin", "destination"}
OptionalColumns ==
    {"flight_date", "flight_time", "price", "airline", "duration", "is_domestic"}
CalendarColumns == {"day_of_week", "month", "is_weekend"}
IdentityKey == {"flight_date", "flight_time", "origin", "destination", "airline"}

\* self.raw_data / self.processed_data when it is None
None == [isNone |-> TRUE, cols |-> {}, dt |-> FALSE, rows |-> <<>>]

\* a DataFrame: its columns, whether flight_date has a datetime dtype, its rows
Table(cols, dt, rows) == [isNone |-> FALSE, cols |-> cols, dt |-> dt, rows |-> rows]

\* one record of the canonical table, as the acquisition layer builds it;
\* index is the row's label in the DataFrame index
FlightRow(date, time, origin, destination, price, airline, duration, dom) ==
    [flight_date |-> date, flight_time |-> time, origin |-> origin,
     destination |-> destination, price |-> price, airline |-> airline,
     duration |-> duration, is_domestic |-> dom,
     day_of_week |-> NAInt, month |-> NAInt, is_weekend |-> NAInt,
     week |-> NAInt, year |-> NAInt, price_category |-> NA,
     index |-> 0]

\* a row as seen through the columns the table has
Project(row, cols) ==
    [row EXCEPT
        !.flight_date = IF "flight_date" \in cols THEN @ ELSE NA,
        !.flight_time = IF "flight_time" \in cols THEN @ ELSE NA,
        !.price       = IF "price" \in cols THEN @ ELSE NaN,
        !.airline     = IF "airline" \in cols THEN @ ELSE NA,
        !.duration    = IF "duration" \in cols THEN @ ELSE NAInt,
        !.is_domestic = IF "is_domestic" \in cols THEN @ ELSE FALSE]

Indices(s) == 1..Len(s)

\* rows of s at the positions in keep, in order
RECURSIVE Filter(_, _, _)
Filter(s, keep, i) ==
    IF i > Len(s) THEN <<>>
    ELSE (IF i \in keep THEN <<s[i]>> ELSE <<>>) \o Filter(s, keep, i + 1)

(***************************************************************************)
(* Calendar: pd.to_datetime and the .dt accessors on the dates used        *)
(***************************************************************************)
Timestamp ==
    [d \in {"2024-01-06", "2024-01-08", "2024-06-03"} |->
        CASE d = "2024-01-06" -> "2024-01-06T00:00:00"
          [] d = "2024-01-08" -> "2024-01-08T00:00:00"
          [] d = "2024-06-03" -> "2024-06-03T00:00:00"]

Parseable(d) == d \in DOMAIN Timestamp \/ d \in {Timestamp[x] : x \in DOMAIN Timestamp}

to_datetime(d) == IF d \in DOMAIN Timestamp THEN Timestamp[d] ELSE d

\* Monday = 0 .. Sunday = 6
dayofweek(ts) ==
    CASE ts = "2024-01-06T00:00:00" -> 5
      [] ts = "2024-01-08T00:00:00" -> 0
      [] ts = "2024-06-03T00:00:00" -> 0

month_of(ts) ==
    CASE ts = "2024-01-06T00:00:00" -> 1
      [] ts = "2024-01-08T00:00:00" -> 1
      [] ts = "2024-06-03T00:00:00" -> 6

isoweek(ts) ==
    CASE ts = "2024-01-06T00:00:00" -> 1
      [] ts = "2024-01-08T00:00:00" -> 2
      [] ts = "2024-06-03T00:00:00" -> 23

isoyear(ts) == 2024

(***************************************************************************)
(* Order statistics (Series.median, Series.quantile)                       *)
(***************************************************************************)
\* the values of s that are not NaN
NotNull(s) == Filter(s, {i \in Indices(s) : s[i] # NaN}, 1)

\* k-th smallest value of a non-empty sequence, k = 0 .. Len(s) - 1
KthSmallest(s, k) ==
    CHOOSE v \in {s[i] : i \in Indices(s)} :
        /\ Cardinality({i \in Indices(s) : s[i] < v}) <= k
        /\ Cardinality({i \in Indices(s) : s[i] <= v}) > k

\* twice the median of a non-empty sequence without NaN
Median2(s) ==
    LET n == Len(s) IN
    IF n % 2 = 1 THEN 2 * KthSmallest(s, n \div 2)
    ELSE KthSmallest(s, n \div 2 - 1) + KthSmallest(s, n \div 2)

\* Series.median(): NaN values are skipped, NaN when none is left
Median(s) ==
    LET v == NotNull(s) IN IF Len(v) = 0 THEN NaN ELSE Median2(v) \div 2

\* four times Series.quantile(num/4) of a non-empty sequence without NaN
\* (linear interpolation between the two neighbouring order statistics)
Quantile4(s, num) ==
    LET pos4 == num * (Len(s) - 1)
        i    == pos4 \div 4
        r    == pos4 % 4
        lo   == KthSmallest(s, i)
    IN  IF r = 0 THEN 4 * lo ELSE 4 * lo + r * (KthSmallest(s, i + 1) - lo)

(***************************************************************************)
(* DataProcessor: the object is [raw, proc, ins, exc]; exc is the          *)
(* exception a call left the object with ("none" when it returned)         *)
(***************************************************************************)
Processor(raw, proc, ins, exc) == [raw |-> raw, proc |-> proc, ins |-> ins, exc |-> exc]

\* the empty InsightsDocument
NoInsights == [k \in {} |-> 0]

\* DataProcessor.__init__
NewProcessor == Processor(None, None, NoInsights, "none")

\* DataProcessor.load_data
load_data(p, data) == [p EXCEPT !.raw = data, !.exc = "none"]

Prices(rows) == [i \in Indices(rows) |-> rows[i].price]

SameRoute(a, b) == a.origin = b.origin /\ a.destination = b.destination

\* variant: the overall median is taken over the input prices
FillPrices_OverallOfInput(df) ==
    IF "price" \in df.cols /\ \E i \in Indices(df.rows) : df.rows[i].price = NaN
    THEN LET rows == df.rows
             route_median(i) ==
                 Median(Prices(Filter(rows, {j \in Indices(rows) : SameRoute(rows[j], rows[i])}, 1)))
             byRoute == [i \in Indices(rows) |->
                 IF rows[i].price = NaN THEN [rows[i] EXCEPT !.price = route_median(i)]
                 ELSE rows[i]]
             overall == Median(Prices(rows))
         IN  [df EXCEPT !.rows = [i \in Indices(rows) |->
                 IF byRoute[i].price = NaN THEN [byRoute[i] EXCEPT !.price = overall]
                 ELSE byRoute[i]]]
    ELSE df

\* clean_data, "Handle missing values": route medians, then the overall
\* median of the column as it stands after the route medians were filled in
FillPrices(df) ==
    IF "price" \in df.cols /\ \E i \in Indices(df.rows) : df.rows[i].price = NaN
    THEN LET rows == df.rows
             route_median(i) ==
                 Median(Prices(Filter(rows, {j \in Indices(rows) : SameRoute(rows[j], rows[i])}, 1)))
             byRoute == [i \in Indices(rows) |->
                 IF rows[i].price = NaN THEN [rows[i] EXCEPT !.price = route_median(i)]
                 ELSE rows[i]]
             overall == Median(Prices(byRoute))
         IN  [df EXCEPT !.rows = [i \in Indices(rows) |->
                 IF byRoute[i].price = NaN THEN [byRoute[i] EXCEPT !.price = overall]
                 ELSE byRoute[i]]]
    ELSE df

\* variant: the rows that do not parse are dropped and the rest converted
ParseDates_DropsBad(df) ==
    IF "flight_date" \in df.cols
    THEN [df EXCEPT !.dt = TRUE,
                    !.rows = LET ok == Filter(df.rows,
                                      {i \in Indices(df.rows) : Parseable(df.rows[i].flight_date)}, 1)
                             IN  [i \in Indices(ok) |->
                                     [ok[i] EXCEPT !.flight_date = to_datetime(@)]]]
    ELSE df

\* clean_data, "Ensure dates are in datetime format": the column is converted
\* as a whole, or left as it is when a value cannot be parsed
ParseDates(df) ==
    IF "flight_date" \in df.cols
       /\ \A i \in Indices(df.rows) : Parseable(df.rows[i].flight_date)
    THEN [df EXCEPT !.dt = TRUE,
                    !.rows = [i \in Indices(df.rows) |->
                        [df.rows[i] EXCEPT !.flight_date = to_datetime(@)]]]
    ELSE df

KeyOf(row) == <<row.flight_date, row.flight_time, row.origin, row.destination, row.airline>>

\* variant: keep = 'last'
drop_duplicates_KeepLast(rows) ==
    Filter(rows, {i \in Indices(rows) :
                     \A j \in (i + 1)..Len(rows) : KeyOf(rows[j]) # KeyOf(rows[i])}, 1)

\* DataFrame.drop_duplicates(subset = identity key, keep = 'first')
drop_duplicates(rows) ==
    Filter(rows, {i \in Indices(rows) : \A j \in 1..(i - 1) : KeyOf(rows[j]) # KeyOf(rows[i])}, 1)

\* variant: a price on the fence is outside
InFence_Strict(price, q1, q3) ==
    /\ 8 * price > 2 * q1 - 3 * (q3 - q1)
    /\ 8 * price < 2 * q3 + 3 * (q3 - q1)

\* the fence test of clean_data on one price, all terms times 8
InFence(price, q1, q3) ==
    /\ 8 * price >= 2 * q1 - 3 * (q3 - q1)
    /\ 8 * price <= 2 * q3 + 3 * (q3 - q1)

\* variant: only the upper bound is applied
RemoveOutliers_UpperOnly(df) ==
    IF "price" \in df.cols
    THEN LET v == NotNull(Prices(df.rows)) IN
         IF Len(v) = 0 THEN [df EXCEPT !.rows = <<>>]
         ELSE LET q1 == Quantile4(v, 1)
                  q3 == Quantile4(v, 3)
              IN  [df EXCEPT !.rows = Filter(df.rows,
                      {i \in Indices(df.rows) :
                          df.rows[i].price # NaN
                          /\ 8 * df.rows[i].price <= 2 * q3 + 3 * (q3 - q1)}, 1)]
    ELSE df

\* clean_data, "Remove outliers in price": a NaN quartile or price compares false
RemoveOutliers(df) ==
    IF "price" \in df.cols
    THEN LET v == NotNull(Prices(df.rows)) IN
         IF Len(v) = 0 THEN [df EXCEPT !.rows = <<>>]
         ELSE LET q1 == Quantile4(v, 1)
                  q3 == Quantile4(v, 3)
              IN  [df EXCEPT !.rows = Filter(df.rows,
                      {i \in Indices(df.rows) :
                          df.rows[i].price # NaN /\ InFence(df.rows[i].price, q1, q3)}, 1)]
    ELSE df

\* clean_data, "Add day of week if we have flight date"
AddCalendar(df) ==
    IF "flight_date" \in df.cols /\ df.dt
    THEN [df EXCEPT !.cols = @ \cup CalendarColumns,
                    !.rows = [i \in Indices(df.rows) |->
                        LET dow == dayofweek(df.rows[i].flight_date) IN
                        [df.rows[i] EXCEPT !.day_of_week = dow,
                                           !.month = month_of(df.rows[i].flight_date),
                                           !.is_weekend = IF dow \in {5, 6} THEN 1 ELSE 0]]]
    ELSE df

\* the table clean_data holds when it reaches the outlier step
BeforeOutliers(raw) ==
    LET df == ParseDates(FillPrices(raw)) IN
    IF Cardinality(df.cols) > 3 THEN [df EXCEPT !.rows = drop_duplicates(@)] ELSE df

\* variant: the early return tests for None only
NothingToClean_NoneOnly(raw) == raw.isNone

\* the early return of clean_data
NothingToClean(raw) == raw.isNone \/ Len(raw.rows) = 0

\* DataProcessor.clean_data
clean_data(p) ==
    IF NothingToClean(p.raw) THEN [p EXCEPT !.exc = "none"]
    ELSE IF Cardinality(p.raw.cols) > 3 /\ ~(IdentityKey \subseteq p.raw.cols)
         THEN [p EXCEPT !.exc = "KeyError"]
         ELSE [p EXCEPT !.proc = AddCalendar(RemoveOutliers(BeforeOutliers(p.raw))),
                        !.exc = "none"]

(***************************************************************************)
(* Grouping and ordering helpers (groupby sorts its keys; sort_values with *)
(* ascending = False keeps tied rows in their previous order on the small  *)
(* frames considered here)                                                 *)
(***************************************************************************)
\* airport codes in string order
AirportOrder ==
    <<"ADL", "AKL", "BKK", "BNE", "CBR", "CNS", "DPS", "DRW", "DXB", "HBA",
      "HKG", "HND", "KUL", "LAX", "LHR", "MEL", "OOL", "PER", "SIN", "SYD">>

CodeRank(c) == CHOOSE i \in Indices(AirportOrder) : AirportOrder[i] = c

\* timestamps in time order
DateOrder == <<"2024-01-06T00:00:00", "2024-01-08T00:00:00", "2024-06-03T00:00:00">>

DateRank(d) == CHOOSE i \in Indices(DateOrder) : DateOrder[i] = d

\* lexicographic order on tuples of integers of equal length
RECURSIVE TupleLess(_, _)
TupleLess(a, b) ==
    IF Len(a) = 0 THEN FALSE
    ELSE \/ a[1] < b[1]
         \/ a[1] = b[1] /\ TupleLess(Tail(a), Tail(b))

\* the elements of the set S in the order given by their integer-tuple rank
SortedBy(S, rank(_)) ==
    [i \in 1..Cardinality(S) |->
        CHOOSE x \in S : Cardinality({y \in S : TupleLess(rank(y), rank(x))}) = i - 1]

\* s reordered by decreasing key, tied elements in their order in s
SortDescending(s, key(_)) ==
    LET pos(i) == 1 + Cardinality({j \in Indices(s) : key(s[j]) > key(s[i])})
                    + Cardinality({j \in 1..(i - 1) : key(s[j]) = key(s[i])})
    IN  [k \in Indices(s) |-> s[CHOOSE i \in Indices(s) : pos(i) = k]]

\* variant: every row is kept
Head_n_All(s, n) == s

\* DataFrame.head(n)
Head_n(s, n) == SubSeq(s, 1, IF Len(s) < n THEN Len(s) ELSE n)

RECURSIVE Sum(_)
Sum(s) == IF Len(s) = 0 THEN 0 ELSE Head(s) + Sum(Tail(s))

\* an exact quotient num / den (a mean, a ratio), kept as the two integers
Frac(num, den) == [num |-> num, den |-> den]

\* Series.mean() of a sequence without NaN
Mean(s) == Frac(Sum(s), Len(s))

\* the ['mean', 'median', 'count'] aggregate of a group of rows
PriceAgg(rows) ==
    [avg_price |-> Mean(Prices(rows)), median_price2 |-> Median2(Prices(rows)),
     flight_count |-> Len(rows)]

RowsWhere(rows, P(_)) == Filter(rows, {i \in Indices(rows) : P(rows[i])}, 1)

RouteOf(row) == <<row.origin, row.destination>>
RouteRank(r) == <<CodeRank(r[1]), CodeRank(r[2])>>

\* groupby(['origin', 'destination']): the routes of the table in key order
Routes(rows) == SortedBy({RouteOf(rows[i]) : i \in Indices(rows)}, RouteRank)

OnRoute(rows, r) == RowsWhere(rows, LAMBDA row : RouteOf(row) = r)

\* variant: the assignment replaces the document
Put_Replaces(ins, key, value) ==
    [k \in {key} |-> value]

\* insights[key] = value
Put(ins, key, value) ==
    [k \in DOMAIN ins \cup {key} |-> IF k = key THEN value ELSE ins[k]]

MonthName ==
    <<"January", "February", "March", "April", "May", "June", "July",
      "August", "September", "October", "November", "December">>

DayName == <<"Monday", "Tuesday", "Wednesday", "Thursday", "Friday", "Saturday", "Sunday">>

(***************************************************************************)
(* Aggregation passes                                                      *)
(***************************************************************************)
\* variant: only the origin is looked up
RouteIsDomestic_OriginOnly(origin, destination) ==
    origin \in AUSTRALIAN_CITIES

\* is_domestic(row) of analyze_popular_routes
RouteIsDomestic(origin, destination) ==
    origin \in AUSTRALIAN_CITIES /\ destination \in AUSTRALIAN_CITIES

\* DataProcessor.analyze_popular_routes.  On a frame without rows
\* DataFrame.apply returns a frame, and assigning a frame to the single
\* column is_domestic raises or not depending on the pandas release:
\* emptyApplyRaises says which.
analyze_popular_routes(p, top_n, emptyApplyRaises) ==
    IF p.proc.isNone THEN [p EXCEPT !.exc = "none"]
    ELSE LET rows == p.proc.rows
             groups == Routes(rows)
             route_counts == [i \in Indices(groups) |->
                 [origin |-> groups[i][1], destination |-> groups[i][2],
                  frequency |-> Len(OnRoute(rows, groups[i]))]]
             top == Head_n(SortDescending(route_counts, LAMBDA r : r.frequency), top_n)
             popular_routes == [i \in Indices(top) |->
                 [origin |-> top[i].origin, destination |-> top[i].destination,
                  frequency |-> top[i].frequency,
                  is_domestic |-> RouteIsDomestic(top[i].origin, top[i].destination)]]
         IN  IF Len(top) = 0 /\ emptyApplyRaises THEN [p EXCEPT !.exc = "ValueError"]
             ELSE [p EXCEPT !.ins = Put(@, "popular_routes", popular_routes), !.exc = "none"]

\* DataProcessor.analyze_price_trends; it adds the columns week and year to
\* the frame it reads, which is self.processed_data itself
analyze_price_trends(p) ==
    IF p.proc.isNone \/ "price" \notin p.proc.cols THEN [p EXCEPT !.exc = "none"]
    ELSE IF "flight_date" \in p.proc.cols /\ p.proc.dt
    THEN LET rows == p.proc.rows
             dates == SortedBy({rows[i].flight_date : i \in Indices(rows)},
                               LAMBDA d : <<DateRank(d)>>)
             daily_avg == [i \in Indices(dates) |->
                 LET g == PriceAgg(RowsWhere(rows, LAMBDA r : r.flight_date = dates[i])) IN
                 [date |-> dates[i], avg_price |-> g.avg_price,
                  median_price2 |-> g.median_price2, flight_count |-> g.flight_count]]
             withWeek == [i \in Indices(rows) |->
                 [rows[i] EXCEPT !.week = isoweek(rows[i].flight_date),
                                 !.year = isoyear(rows[i].flight_date)]]
             weeks == SortedBy({<<withWeek[i].year, withWeek[i].week>> : i \in Indices(rows)},
                               LAMBDA w : w)
             weekly_avg == [i \in Indices(weeks) |->
                 LET g == PriceAgg(RowsWhere(withWeek,
                              LAMBDA r : <<r.year, r.week>> = weeks[i])) IN
                 [year |-> weeks[i][1], week |-> weeks[i][2], avg_price |-> g.avg_price,
                  median_price2 |-> g.median_price2, flight_count |-> g.flight_count]]
         IN  [p EXCEPT !.proc = [@ EXCEPT !.cols = @ \cup {"week", "year"}, !.rows = withWeek],
                       !.ins = Put(Put(@, "daily_price_trends", daily_avg),
                                   "weekly_price_trends", weekly_avg),
                       !.exc = "none"]
    ELSE [p EXCEPT !.exc = "none"]

\* the per-group records of analyze_seasonal_patterns, grouped on a calendar field
CalendarStats(rows, field(_)) ==
    LET keys == SortedBy({field(rows[i]) : i \in Indices(rows)}, LAMBDA k : <<k>>) IN
    [i \in Indices(keys) |->
        LET g == PriceAgg(RowsWhere(rows, LAMBDA r : field(r) = keys[i])) IN
        [key |-> keys[i], avg_price |-> g.avg_price,
         median_price2 |-> g.median_price2, flight_count |-> g.flight_count]]

\* DataProcessor.analyze_seasonal_patterns.  Without a price column the
\* aggregation {'price': 'count'} names a column the frame does not have.
analyze_seasonal_patterns(p) ==
    IF p.proc.isNone THEN [p EXCEPT !.exc = "none"]
    ELSE IF "month" \notin p.proc.cols /\ ~("flight_date" \in p.proc.cols /\ p.proc.dt)
    THEN [p EXCEPT !.exc = "none"]
    ELSE LET df == IF "month" \in p.proc.cols THEN p.proc
                   ELSE [p.proc EXCEPT !.cols = @ \cup {"month"},
                            !.rows = [i \in Indices(p.proc.rows) |->
                                [p.proc.rows[i] EXCEPT !.month = month_of(p.proc.rows[i].flight_date)]]]
             monthly == CalendarStats(df.rows, LAMBDA r : r.month)
             monthly_stats == [i \in Indices(monthly) |->
                 [month |-> monthly[i].key, avg_price |-> monthly[i].avg_price,
                  median_price2 |-> monthly[i].median_price2,
                  flight_count |-> monthly[i].flight_count]]
             daily == CalendarStats(df.rows, LAMBDA r : r.day_of_week)
             day_stats == [i \in Indices(daily) |->
                 [day_of_week |-> daily[i].key, avg_price |-> daily[i].avg_price,
                  median_price2 |-> daily[i].median_price2,
                  flight_count |-> daily[i].flight_count,
                  day_name |-> DayName[daily[i].key + 1]]]
             peak == Head_n(SortDescending(monthly_stats, LAMBDA m : m.flight_count), 2)
             peak_month_names == [i \in Indices(peak) |-> MonthName[peak[i].month]]
             withDays == IF "day_of_week" \in df.cols
                         THEN Put(p.ins, "day_of_week_patterns", day_stats) ELSE p.ins
         IN  IF "price" \notin df.cols THEN [p EXCEPT !.proc = df, !.exc = "KeyError"]
             ELSE [p EXCEPT !.proc = df,
                            !.ins = Put(Put(withDays, "monthly_patterns", monthly_stats),
                                        "peak_travel_periods", peak_month_names),
                            !.exc = "none"]

\* variant: intervals closed on the left and open on the right
price_category_LeftClosed(price) ==
    IF price >= 0 /\ price < 800 THEN "Budget"
    ELSE IF price >= 800 /\ price < 2000 THEN "Economy"
    ELSE IF price >= 2000 /\ price < 4000 THEN "Premium"
    ELSE IF price >= 4000 THEN "Luxury"
    ELSE NA

\* pd.cut(price, bins = [0, 200, 500, 1000, inf], labels = ...): intervals are
\* open on the left and closed on the right, a price outside them gets no label
price_category(price) ==
    IF price > 0 /\ price <= 800 THEN "Budget"
    ELSE IF price > 800 /\ price <= 2000 THEN "Economy"
    ELSE IF price > 2000 /\ price <= 4000 THEN "Premium"
    ELSE IF price > 4000 THEN "Luxury"
    ELSE NA

CategoryLabels == <<"Budget", "Economy", "Premium", "Luxury">>

\* DataProcessor.analyze_price_distribution; it adds the column
\* price_category to self.processed_data.  std is kept as the exact variance
\* (n * sum(x^2) - sum(x)^2) / (n * (n - 1)).
analyze_price_distribution(p) ==
    IF p.proc.isNone \/ "price" \notin p.proc.cols THEN [p EXCEPT !.exc = "none"]
    ELSE LET rows == p.proc.rows
             v == Prices(rows)
             n == Len(v)
             price_stats ==
                 IF n = 0 THEN [empty |-> TRUE]
                 ELSE [min |-> KthSmallest(v, 0), max |-> KthSmallest(v, n - 1),
                       mean |-> Mean(v), median2 |-> Median2(v),
                       variance |-> Frac(n * Sum([i \in Indices(v) |-> v[i] * v[i]]) - Sum(v) * Sum(v),
                                         n * (n - 1)),
                       q1_4 |-> Quantile4(v, 1), q3_4 |-> Quantile4(v, 3)]
             withCategory == [i \in Indices(rows) |->
                 [rows[i] EXCEPT !.price_category = price_category(rows[i].price)]]
             counts == [i \in Indices(CategoryLabels) |->
                 [category |-> CategoryLabels[i],
                  count |-> Len(RowsWhere(withCategory,
                                LAMBDA r : r.price_category = CategoryLabels[i]))]]
             price_categories == SortDescending(counts, LAMBDA c : c.count)
         IN  [p EXCEPT !.proc = [@ EXCEPT !.cols = @ \cup {"price_category"},
                                          !.rows = withCategory],
                       !.ins = Put(Put(@, "price_stats", price_stats),
                                   "price_categories", price_categories),
                       !.exc = "none"]

\* rule 1 of analyze_market_opportunities: high demand and high price
HighDemandHighPrice(df) ==
    LET rows == df.rows
        groups == Routes(rows)
        route_demand == [i \in Indices(groups) |->
            [origin |-> groups[i][1], destination |-> groups[i][2],
             frequency |-> Len(OnRoute(rows, groups[i])),
             price2 |-> IF "price" \in df.cols
                        THEN Median2(Prices(OnRoute(rows, groups[i]))) ELSE 0]]
        freq == [i \in Indices(route_demand) |-> route_demand[i].frequency]
        high_demand == IF Len(freq) = 0 THEN <<>>
                       ELSE RowsWhere(route_demand, LAMBDA r : 2 * r.frequency > Median2(freq))
        medians == [i \in Indices(high_demand) |-> high_demand[i].price2]
        high_opportunity == IF Len(medians) = 0 THEN <<>>
                            ELSE RowsWhere(high_demand, LAMBDA r : 2 * r.price2 > Median2(medians))
        first5 == Head_n(high_opportunity, 5)
    IN  IF "price" \in df.cols
        THEN [i \in Indices(first5) |->
                [type |-> "high_demand_high_price", origin |-> first5[i].origin,
                 destination |-> first5[i].destination,
                 frequency |-> first5[i].frequency, median_price2 |-> first5[i].price2]]
        ELSE <<>>

\* variant: the qualifying routes are not sorted by price difference
WeekendPremium_Unsorted(df) ==
    LET rows == df.rows
        groups == Routes(rows)
        side(r, w) == RowsWhere(OnRoute(rows, r), LAMBDA row : row.is_weekend = w)
        both == RowsWhere(groups, LAMBDA r : Len(side(r, 0)) > 0 /\ Len(side(r, 1)) > 0)
        pivot == [i \in Indices(both) |->
            LET wd == Median2(Prices(side(both[i], 0)))
                we == Median2(Prices(side(both[i], 1)))
            IN  [origin |-> both[i][1], destination |-> both[i][2],
                 weekday_price2 |-> wd, weekend_price2 |-> we,
                 price_difference2 |-> we - wd]]
        significant == RowsWhere(pivot, LAMBDA r :
            IF r.weekday_price2 = 0 THEN r.weekend_price2 > 0
            ELSE 10 * r.weekend_price2 > 13 * r.weekday_price2)
        top5 == Head_n(significant, 5)
    IN  IF "is_weekend" \in df.cols /\ "price" \in df.cols
           /\ (\E i \in Indices(rows) : rows[i].is_weekend = 0)
           /\ (\E i \in Indices(rows) : rows[i].is_weekend = 1)
        THEN [i \in Indices(top5) |->
                [type |-> "weekend_premium", origin |-> top5[i].origin,
                 destination |-> top5[i].destination,
                 weekday_price2 |-> top5[i].weekday_price2,
                 weekend_price2 |-> top5[i].weekend_price2,
                 price_difference2 |-> top5[i].price_difference2]]
        ELSE <<>>

\* rule 2 of analyze_market_opportunities: weekend premium.  The pivot has a
\* column per value of is_weekend that occurs; a route without rows on one
\* side has NaN there, and a NaN ratio compares false.  A weekday median of 0
\* gives an infinite ratio (or NaN when the weekend median is 0 too).
WeekendPremium(df) ==
    LET rows == df.rows
        groups == Routes(rows)
        side(r, w) == RowsWhere(OnRoute(rows, r), LAMBDA row : row.is_weekend = w)
        both == RowsWhere(groups, LAMBDA r : Len(side(r, 0)) > 0 /\ Len(side(r, 1)) > 0)
        pivot == [i \in Indices(both) |->
            LET wd == Median2(Prices(side(both[i], 0)))
                we == Median2(Prices(side(both[i], 1)))
            IN  [origin |-> both[i][1], destination |-> both[i][2],
                 weekday_price2 |-> wd, weekend_price2 |-> we,
                 price_difference2 |-> we - wd]]
        significant == RowsWhere(pivot, LAMBDA r :
            IF r.weekday_price2 = 0 THEN r.weekend_price2 > 0
            ELSE 10 * r.weekend_price2 > 13 * r.weekday_price2)
        top5 == Head_n(SortDescending(significant, LAMBDA r : r.price_difference2), 5)
    IN  IF "is_weekend" \in df.cols /\ "price" \in df.cols
           /\ (\E i \in Indices(rows) : rows[i].is_weekend = 0)
           /\ (\E i \in Indices(rows) : rows[i].is_weekend = 1)
        THEN [i \in Indices(top5) |->
                [type |-> "weekend_premium", origin |-> top5[i].origin,
                 destination |-> top5[i].destination,
                 weekday_price2 |-> top5[i].weekday_price2,
                 weekend_price2 |-> top5[i].weekend_price2,
                 price_difference2 |-> top5[i].price_difference2]]
        ELSE <<>>

\* variant: only the rows that have no price_category yet are grouped
MonthlyPrices_Uncategorised(rows) ==
    LET fresh == RowsWhere(rows, LAMBDA r : r.price_category = NA)
        keys == SortedBy({<<fresh[i].origin, fresh[i].destination, fresh[i].month>> : i \in Indices(fresh)},
                         LAMBDA k : <<CodeRank(k[1]), CodeRank(k[2]), k[3]>>)
    IN  [i \in Indices(keys) |->
            [origin |-> keys[i][1], destination |-> keys[i][2], month |-> keys[i][3],
             price2 |-> Median2(Prices(RowsWhere(fresh,
                 LAMBDA r : <<r.origin, r.destination, r.month>> = keys[i])))]]

\* groupby(['origin', 'destination', 'month'])['price'].median().reset_index()
MonthlyPrices(rows) ==
    LET keys == SortedBy({<<rows[i].origin, rows[i].destination, rows[i].month>> : i \in Indices(rows)},
                         LAMBDA k : <<CodeRank(k[1]), CodeRank(k[2]), k[3]>>)
    IN  [i \in Indices(keys) |->
            [origin |-> keys[i][1], destination |-> keys[i][2], month |-> keys[i][3],
             price2 |-> Median2(Prices(RowsWhere(rows,
                 LAMBDA r : <<r.origin, r.destination, r.month>> = keys[i])))]]

\* rule 3 of analyze_market_opportunities for one origin.  idxmax / idxmin
\* return the row's label in monthly_prices (its position there, from 0) and
\* iloc takes it as a position within route_data.
SeasonalVariation(monthly_prices, origin) ==
    LET labels == {i \in Indices(monthly_prices) : monthly_prices[i].origin = origin}
        route_data == Filter(monthly_prices, labels, 1)
        max2 == KthSmallest([i \in Indices(route_data) |-> route_data[i].price2],
                            Len(route_data) - 1)
        min2 == KthSmallest([i \in Indices(route_data) |-> route_data[i].price2], 0)
        significant == min2 > 0 /\ 2 * max2 > 3 * min2
        idxmax == (CHOOSE i \in labels : monthly_prices[i].price2 = max2
                      /\ \A j \in labels : monthly_prices[j].price2 = max2 => i <= j) - 1
        idxmin == (CHOOSE i \in labels : monthly_prices[i].price2 = min2
                      /\ \A j \in labels : monthly_prices[j].price2 = min2 => i <= j) - 1
    IN  IF Len(route_data) > 1 /\ significant
        THEN IF idxmax >= Len(route_data) \/ idxmin >= Len(route_data)
             THEN [exc |-> "IndexError", records |-> <<>>]
             ELSE [exc |-> "none", records |->
                     <<[type |-> "seasonal_variation", origin |-> origin,
                        destination |-> route_data[idxmax + 1].destination,
                        high_price_month |-> MonthName[route_data[idxmax + 1].month],
                        low_price_month |-> MonthName[route_data[idxmin + 1].month],
                        price_ratio |-> Frac(max2, min2)]>>]
        ELSE [exc |-> "none", records |-> <<>>]

\* the loop of rule 3 over monthly_prices['origin'].unique(), from the i-th origin on
RECURSIVE SeasonalLoop(_, _, _)
SeasonalLoop(monthly_prices, origins, i) ==
    IF i > Len(origins) THEN [exc |-> "none", records |-> <<>>]
    ELSE LET this == SeasonalVariation(monthly_prices, origins[i]) IN
         IF this.exc # "none" THEN this
         ELSE LET rest == SeasonalLoop(monthly_prices, origins, i + 1) IN
              [exc |-> rest.exc, records |-> this.records \o rest.records]

\* variant: the seasonal records are put first
analyze_market_opportunities_SeasonalFirst(p) ==
    IF p.proc.isNone THEN [p EXCEPT !.exc = "none"]
    ELSE LET df == p.proc
             monthly_prices == MonthlyPrices(df.rows)
             origins == SortedBy({df.rows[i].origin : i \in Indices(df.rows)},
                                 LAMBDA o : <<CodeRank(o)>>)
             seasonal == IF "month" \in df.cols /\ "price" \in df.cols
                         THEN SeasonalLoop(monthly_prices, origins, 1)
                         ELSE [exc |-> "none", records |-> <<>>]
             opportunities == seasonal.records \o HighDemandHighPrice(df) \o WeekendPremium(df)
         IN  IF seasonal.exc # "none" THEN [p EXCEPT !.exc = seasonal.exc]
             ELSE [p EXCEPT !.ins = Put(@, "market_opportunities", opportunities),
                            !.exc = "none"]

\* DataProcessor.analyze_market_opportunities
analyze_market_opportunities(p) ==
    IF p.proc.isNone THEN [p EXCEPT !.exc = "none"]
    ELSE LET df == p.proc
             monthly_prices == MonthlyPrices(df.rows)
             origins == SortedBy({df.rows[i].origin : i \in Indices(df.rows)},
                                 LAMBDA o : <<CodeRank(o)>>)
             seasonal == IF "month" \in df.cols /\ "price" \in df.cols
                         THEN SeasonalLoop(monthly_prices, origins, 1)
                         ELSE [exc |-> "none", records |-> <<>>]
             opportunities == HighDemandHighPrice(df) \o WeekendPremium(df) \o seasonal.records
         IN  IF seasonal.exc # "none" THEN [p EXCEPT !.exc = seasonal.exc]
             ELSE [p EXCEPT !.ins = Put(@, "market_opportunities", opportunities),
                            !.exc = "none"]

\* round(num / den) to the nearest integer, ties to even (num >= 0, den > 0)
RoundDiv(num, den) ==
    LET q == num \div den
        r == num % den
    IN  IF 2 * r < den THEN q
        ELSE IF 2 * r > den THEN q + 1
        ELSE IF q % 2 = 0 THEN q ELSE q + 1

\* a float division by zero that gave inf
Infinity == 1000000000

\* airport code -> city name of generate_summary_insights
CityName ==
    [c \in AUSTRALIAN_CITIES \cup POPULAR_INTERNATIONAL_DESTINATIONS |->
        CASE c = "SYD" -> "Sydney"     [] c = "MEL" -> "Melbourne"
          [] c = "BNE" -> "Brisbane"   [] c = "PER" -> "Perth"
          [] c = "ADL" -> "Adelaide"   [] c = "DRW" -> "Darwin"
          [] c = "OOL" -> "Gold Coast" [] c = "CNS" -> "Cairns"
          [] c = "CBR" -> "Canberra"   [] c = "HBA" -> "Hobart"
          [] c = "AKL" -> "Auckland"   [] c = "SIN" -> "Singapore"
          [] c = "DPS" -> "Bali"       [] c = "HND" -> "Tokyo"
          [] c = "HKG" -> "Hong Kong"  [] c = "LAX" -> "Los Angeles"
          [] c = "LHR" -> "London"     [] c = "DXB" -> "Dubai"
          [] c = "BKK" -> "Bangkok"    [] c = "KUL" -> "Kuala Lumpur"]

\* Series.value_counts(): the values in order of first appearance, then by
\* decreasing count
value_counts(s) ==
    LET firsts == Filter(s, {i \in Indices(s) : \A j \in 1..(i - 1) : s[j] # s[i]}, 1)
        counted == [i \in Indices(firsts) |->
            [value |-> firsts[i],
             count |-> Cardinality({j \in Indices(s) : s[j] = firsts[i]})]]
    IN  SortDescending(counted, LAMBDA c : c.count)

\* value_counts().head(5) with the city names attached
TopAirports(codes) ==
    LET top == Head_n(value_counts(codes), 5) IN
    [i \in Indices(top) |->
        [code |-> top[i].value, count |-> top[i].count,
         city |-> IF top[i].value \in DOMAIN CityName THEN CityName[top[i].value]
                  ELSE top[i].value]]

\* round(mean, 2) of prices, in hundredths of a currency unit
RoundedMean(v) == IF Len(v) = 0 THEN NaN ELSE RoundDiv(25 * Sum(v), Len(v))

\* variant: the raw table is counted
TotalFlights_Raw(p) == Len(p.raw.rows)

\* insights['total_flights'] = len(df)
TotalFlights(p) == Len(p.proc.rows)

\* variant: the two subset averages are written only when both subsets have rows
generate_summary_insights_BothSubsets(p) ==
    IF p.proc.isNone THEN [p EXCEPT !.exc = "none"]
    ELSE LET df == p.proc
             rows == df.rows
             n == Len(rows)
             has(c) == c \in df.cols
             domestic_df == RowsWhere(rows, LAMBDA r : r.is_domestic = TRUE)
             international_df == RowsWhere(rows, LAMBDA r : r.is_domestic = FALSE)
             domestic_count == Len(domestic_df)
             weekend_df == RowsWhere(rows, LAMBDA r : r.is_weekend = 1)
             weekday_df == RowsWhere(rows, LAMBDA r : r.is_weekend = 0)
             premium ==
                 LET we == Sum(Prices(weekend_df)) * Len(weekday_df)
                     wd == Sum(Prices(weekday_df)) * Len(weekend_df)
                 IN  IF wd = 0 THEN (IF we = 0 THEN NaN ELSE Infinity)
                     ELSE RoundDiv(1000 * we, wd) - 1000
             s0 == Put(NoInsights, "total_flights", TotalFlights(p))
             s1 == IF has("is_domestic")
                   THEN Put(Put(Put(s0, "domestic_flights", domestic_count),
                                "international_flights", n - domestic_count),
                            "domestic_percentage",
                            IF n = 0 THEN NaN ELSE RoundDiv(1000 * domestic_count, n))
                   ELSE s0
             s2 == IF has("price")
                   THEN Put(Put(s1, "avg_price", RoundedMean(Prices(rows))),
                            "median_price2",
                            IF n = 0 THEN NaN ELSE Median2(Prices(rows)))
                   ELSE s1
             s3 == IF has("price") /\ has("is_domestic") /\ Len(domestic_df) > 0
                      /\ Len(international_df) > 0
                   THEN Put(s2, "avg_domestic_price", RoundedMean(Prices(domestic_df)))
                   ELSE s2
             s4 == IF has("price") /\ has("is_domestic") /\ Len(international_df) > 0
                      /\ Len(domestic_df) > 0
                   THEN Put(s3, "avg_international_price",
                            RoundedMean(Prices(international_df)))
                   ELSE s3
             s5 == Put(Put(s4, "top_origins",
                           TopAirports([i \in Indices(rows) |-> rows[i].origin])),
                       "top_destinations",
                       TopAirports([i \in Indices(rows) |-> rows[i].destination]))
             s6 == IF has("day_of_week")
                   THEN Put(s5, "busiest_day",
                            DayName[value_counts([i \in Indices(rows) |-> rows[i].day_of_week])[1].value + 1])
                   ELSE s5
             s7 == IF has("day_of_week") /\ has("is_weekend") /\ has("price")
                      /\ Len(weekend_df) > 0 /\ Len(weekday_df) > 0
                   THEN Put(s6, "weekend_price_premium", premium)
                   ELSE s6
             s8 == IF has("month")
                   THEN Put(s7, "busiest_month",
                            MonthName[value_counts([i \in Indices(rows) |-> rows[i].month])[1].value])
                   ELSE s7
         IN  \* value_counts().idxmax() of a column without rows raises
             IF n = 0 /\ (has("day_of_week") \/ has("month"))
             THEN [p EXCEPT !.exc = "ValueError"]
             ELSE [p EXCEPT !.ins = Put(@, "summary", s8), !.exc = "none"]

\* DataProcessor.generate_summary_insights.  Percentages are kept in tenths
\* of a percent, rounded prices in hundredths of a currency unit.
generate_summary_insights(p) ==
    IF p.proc.isNone THEN [p EXCEPT !.exc = "none"]
    ELSE LET df == p.proc
             rows == df.rows
             n == Len(rows)
             has(c) == c \in df.cols
             domestic_df == RowsWhere(rows, LAMBDA r : r.is_domestic = TRUE)
             international_df == RowsWhere(rows, LAMBDA r : r.is_domestic = FALSE)
             domestic_count == Len(domestic_df)
             weekend_df == RowsWhere(rows, LAMBDA r : r.is_weekend = 1)
             weekday_df == RowsWhere(rows, LAMBDA r : r.is_weekend = 0)
             premium ==
                 LET we == Sum(Prices(weekend_df)) * Len(weekday_df)
                     wd == Sum(Prices(weekday_df)) * Len(weekend_df)
                 IN  IF wd = 0 THEN (IF we = 0 THEN NaN ELSE Infinity)
                     ELSE RoundDiv(1000 * we, wd) - 1000
             s0 == Put(NoInsights, "total_flights", TotalFlights(p))
             s1 == IF has("is_domestic")
                   THEN Put(Put(Put(s0, "domestic_flights", domestic_count),
                                "international_flights", n - domestic_count),
                            "domestic_percentage",
                            IF n = 0 THEN NaN ELSE RoundDiv(1000 * domestic_count, n))
                   ELSE s0
             s2 == IF has("price")
                   THEN Put(Put(s1, "avg_price", RoundedMean(Prices(rows))),
                            "median_price2",
                            IF n = 0 THEN NaN ELSE Median2(Prices(rows)))
                   ELSE s1
             s3 == IF has("price") /\ has("is_domestic") /\ Len(domestic_df) > 0
                   THEN Put(s2, "avg_domestic_price", RoundedMean(Prices(domestic_df)))
                   ELSE s2
             s4 == IF has("price") /\ has("is_domestic") /\ Len(international_df) > 0
                   THEN Put(s3, "avg_international_price",
                            RoundedMean(Prices(international_df)))
                   ELSE s3
             s5 == Put(Put(s4, "top_origins",
                           TopAirports([i \in Indices(rows) |-> rows[i].origin])),
                       "top_destinations",
                       TopAirports([i \in Indices(rows) |-> rows[i].destination]))
             s6 == IF has("day_of_week")
                   THEN Put(s5, "busiest_day",
                            DayName[value_counts([i \in Indices(rows) |-> rows[i].day_of_week])[1].value + 1])
                   ELSE s5
             s7 == IF has("day_of_week") /\ has("is_weekend") /\ has("price")
                      /\ Len(weekend_df) > 0 /\ Len(weekday_df) > 0
                   THEN Put(s6, "weekend_price_premium", premium)
                   ELSE s6
             s8 == IF has("month")
                   THEN Put(s7, "busiest_month",
                            MonthName[value_counts([i \in Indices(rows) |-> rows[i].month])[1].value])
                   ELSE s7
         IN  \* value_counts().idxmax() of a column without rows raises
             IF n = 0 /\ (has("day_of_week") \/ has("month"))
             THEN [p EXCEPT !.exc = "ValueError"]
             ELSE [p EXCEPT !.ins = Put(@, "summary", s8), !.exc = "none"]

\* one call of run_all_analyses after another: an exception ends the run
Then(p, step(_)) == IF p.exc # "none" THEN p ELSE step(p)

\* DataProcessor.run_all_analyses
run_all_analyses(p, emptyApplyRaises) ==
    IF p.raw.isNone THEN [p EXCEPT !.exc = "none"]
    ELSE Then(Then(Then(Then(Then(Then(clean_data(p),
            LAMBDA q : analyze_popular_routes(q, 10, emptyApplyRaises)),
            analyze_price_trends),
            analyze_seasonal_patterns),
            analyze_price_distribution),
            analyze_market_opportunities),
            generate_summary_insights)

\* DataProcessor.get_insights
get_insights(p) == p.ins

(***************************************************************************)
(* Input tables                                                            *)
(***************************************************************************)
MaxRows == 4
MaxFenceRows == 5
MaxReloads == 1

\* pd.DataFrame(list of records): the rows are labelled 0, 1, ...
DataFrame(cols, records) ==
    Table(cols, FALSE,
          [i \in Indices(records) |-> [Project(records[i], cols) EXCEPT !.index = i - 1]])

SeqsUpTo(S, n) == UNION {[1..k -> S] : k \in 0..n}

TablesOf(colsets, pool, n) ==
    {DataFrame(c, records) : c \in colsets, records \in SeqsUpTo(pool, n)}

AllColumns == RequiredColumns \cup OptionalColumns

\* three routes, priced and unpriced rows
ImputePool ==
    {FlightRow("2024-01-06", "08:00", "SYD", r[1], r[2], "Qantas", 90, TRUE) :
        r \in {<<"MEL", NaN>>, <<"MEL", 40>>, <<"MEL", 120>>,
                <<"BNE", NaN>>, <<"LAX", NaN>>, <<"LAX", 120>>}}

\* one route, prices 10.00, 11.00 and 50.00
FencePool ==
    {FlightRow("2024-01-06", "08:00", "SYD", "MEL", pr, "Qantas", 90, TRUE) :
        pr \in {40, 44, 200}}

\* four identity keys, one of them with two prices
KeyPool ==
    {FlightRow("2024-01-06", "08:00", "SYD", "MEL", 40, "Qantas", 90, TRUE),
     FlightRow("2024-01-08", "08:00", "SYD", "MEL", 40, "Qantas", 90, TRUE),
     FlightRow("2024-06-03", "08:00", "SYD", "MEL", 40, "Jetstar", 90, TRUE),
     FlightRow("2024-06-03", "08:00", "SYD", "MEL", 200, "Qantas", 90, TRUE),
     FlightRow("2024-06-03", "08:00", "SYD", "MEL", NaN, "Qantas", 90, TRUE)}

\* two rows under every choice of optional columns
ColumnPool ==
    {FlightRow("2024-01-06", "08:00", "SYD", "MEL", 40, "Qantas", 90, TRUE),
     FlightRow("not a date", "08:00", "SYD", "LAX", NaN, "Qantas", 600, FALSE)}

\* a domestic and an international row
LifecyclePool ==
    {FlightRow("2024-01-06", "08:00", "SYD", "MEL", 40, "Qantas", 90, TRUE),
     FlightRow("2024-06-03", "08:00", "LAX", "MEL", 80, "Qantas", 90, FALSE)}

CleanerTables(n, m) ==
    TablesOf({{"origin", "destination", "price"}}, ImputePool, n)
    \cup TablesOf({{"origin", "destination", "price"}}, FencePool, m)
    \cup TablesOf({AllColumns}, KeyPool, m)
    \cup TablesOf({RequiredColumns \cup c : c \in SUBSET OptionalColumns}, ColumnPool, 2)

(***************************************************************************)
(* The processor as a state machine                                        *)
(***************************************************************************)
Self == Processor(raw_data, processed_data, insights, raised)

Becomes(p, op) ==
    /\ raw_data' = p.raw
    /\ processed_data' = p.proc
    /\ insights' = p.ins
    /\ raised' = p.exc
    /\ lastOp' = op

AcquisitionIdle == flight_data = <<>> /\ acq = [pc |-> "idle", origin |-> "None"]

\* no aggregation pass has been called on its own
NoPassCalled == ran = {}

\* DataProcessor(raw_data = t)
InitCleaner ==
    /\ raw_data \in CleanerTables(MaxRows, MaxFenceRows) \cup {None}
    /\ processed_data = None
    /\ insights = NoInsights
    /\ raised = "none"
    /\ lastOp = "init"
    /\ loads = 0
    /\ AcquisitionIdle
    /\ NoPassCalled

CleanData ==
    /\ Becomes(clean_data(Self), "clean_data")
    /\ UNCHANGED <<loads, flight_data, acq, ran>>

\* load_data(processed_data): the cleaner's output becomes its next input
LoadCleaned ==
    /\ ~processed_data.isNone
    /\ loads < MaxReloads
    /\ Becomes(load_data(Self, processed_data), "load_data")
    /\ loads' = loads + 1
    /\ UNCHANGED <<flight_data, acq, ran>>

NextCleaner == CleanData \/ LoadCleaned

SpecCleaner == InitCleaner /\ [][NextCleaner]_vars

(***************************************************************************)
(* Claims about the cleaner (checked under SpecCleaner)                    *)
(***************************************************************************)
\* clean_data has just cleaned the table in raw_data into processed_data
Cleaned ==
    /\ lastOp = "clean_data" /\ raised = "none"
    /\ ~raw_data.isNone /\ Len(raw_data.rows) > 0

\* the row of table t labelled l
RowAt(t, l) == CHOOSE r \in {t.rows[i] : i \in Indices(t.rows)} : r.index = l

Labels(t) == {t.rows[i].index : i \in Indices(t.rows)}

\* the prices of the priced rows of t on the route of row r
PricedOnRoute(t, r) ==
    Prices(RowsWhere(t.rows, LAMBDA x : SameRoute(x, r) /\ x.price # NaN))

\* C4: the cleaner never raises, whatever optional columns the table has
C4_CleanerNeverRaises == lastOp = "clean_data" => raised = "none"

\* C5 as stated: a retained row whose input price was missing carries the
\* median of the priced input rows of its route, or else the median of all
\* priced input rows; and no cleaned price is null when the input had a price
C5_ImputationFromInputPrices ==
    (Cleaned /\ "price" \in raw_data.cols) =>
        \A i \in Indices(processed_data.rows) :
            LET r == processed_data.rows[i]
                in == RowAt(raw_data, r.index)
            IN  /\ (\E j \in Indices(raw_data.rows) : raw_data.rows[j].price # NaN)
                       => r.price # NaN
                /\ in.price = NaN =>
                       r.price = IF Len(PricedOnRoute(raw_data, in)) > 0
                                 THEN Median(PricedOnRoute(raw_data, in))
                                 ELSE Median(Prices(raw_data.rows))

\* C5 amended: the fallback is the median of the price column as it stands
\* after the route medians were filled in (filled-in values take part)
C5_ImputationAfterRouteFill ==
    (Cleaned /\ "price" \in raw_data.cols) =>
        LET filled == [j \in Indices(raw_data.rows) |->
                LET x == raw_data.rows[j] IN
                IF x.price # NaN THEN x.price
                ELSE IF Len(PricedOnRoute(raw_data, x)) > 0
                     THEN Median(PricedOnRoute(raw_data, x)) ELSE NaN]
        IN  \A i \in Indices(processed_data.rows) :
                LET r == processed_data.rows[i]
                    in == RowAt(raw_data, r.index)
                IN  /\ (\E j \in Indices(raw_data.rows) : raw_data.rows[j].price # NaN)
                           => r.price # NaN
                    /\ in.price = NaN =>
                           r.price = IF Len(PricedOnRoute(raw_data, in)) > 0
                                     THEN Median(PricedOnRoute(raw_data, in))
                                     ELSE Median(filled)

\* a retained row got the fallback, which differs from the median of the input prices
C5_Witness ==
    /\ Cleaned /\ "price" \in raw_data.cols
    /\ \E i \in Indices(processed_data.rows) :
          LET in == RowAt(raw_data, processed_data.rows[i].index) IN
          /\ in.price = NaN
          /\ Len(PricedOnRoute(raw_data, in)) = 0
          /\ processed_data.rows[i].price # Median(Prices(raw_data.rows))

\* C6: no two cleaned rows agree on the identity key, and a cleaned row is the
\* first input row with its key; the rows that reach the outlier step are
\* exactly those first occurrences
C6_NoDuplicateKeys ==
    (Cleaned /\ IdentityKey \subseteq raw_data.cols) =>
        LET firsts == {raw_data.rows[i].index : i \in
                          {i \in Indices(raw_data.rows) :
                              \A j \in 1..(i - 1) :
                                  KeyOf(raw_data.rows[j]) # KeyOf(raw_data.rows[i])}}
        IN  /\ \A i, j \in Indices(processed_data.rows) :
                   i # j => KeyOf(processed_data.rows[i]) # KeyOf(processed_data.rows[j])
            /\ Labels(processed_data) \subseteq firsts
            /\ Labels(BeforeOutliers(raw_data)) = firsts

\* a table with two rows of one key was cleaned and the first of them kept
C6_Witness ==
    /\ Cleaned /\ IdentityKey \subseteq raw_data.cols
    /\ \E i, j \in Indices(raw_data.rows) :
          /\ i < j
          /\ KeyOf(raw_data.rows[i]) = KeyOf(raw_data.rows[j])
          /\ raw_data.rows[i].index \in Labels(processed_data)

\* C7: the retained rows are exactly the rows whose price lies within
\* [Q1 - 1.5 IQR, Q3 + 1.5 IQR], the quartiles taken over the prices after
\* imputation and after deduplication; no retained price differs from its
\* imputed value
C7_OutlierFence ==
    (Cleaned /\ "price" \in raw_data.cols) =>
        LET in == raw_data.rows
            byRoute == [j \in Indices(in) |->
                IF in[j].price # NaN THEN in[j].price
                ELSE IF Len(PricedOnRoute(raw_data, in[j])) > 0
                     THEN Median(PricedOnRoute(raw_data, in[j])) ELSE NaN]
            imputed == [j \in Indices(in) |->
                IF byRoute[j] # NaN THEN byRoute[j] ELSE Median(byRoute)]
            kept == IF Cardinality(raw_data.cols) > 3
                    THEN {j \in Indices(in) : \A k \in 1..(j - 1) : KeyOf(in[k]) # KeyOf(in[j])}
                    ELSE Indices(in)
            column == NotNull(Filter(imputed, kept, 1))
            inside(price) ==
                /\ Len(column) > 0 /\ price # NaN
                /\ 8 * price + 3 * Quantile4(column, 3) >= 5 * Quantile4(column, 1)
                /\ 8 * price + 3 * Quantile4(column, 1) <= 5 * Quantile4(column, 3)
        IN  /\ Labels(processed_data) = {in[j].index : j \in {j \in kept : inside(imputed[j])}}
            /\ \A i \in Indices(processed_data.rows) :
                  \E j \in kept : /\ in[j].index = processed_data.rows[i].index
                                  /\ processed_data.rows[i].price = imputed[j]

\* a duplicate was removed and then an outlier dropped
C7_Witness ==
    /\ Cleaned /\ "price" \in raw_data.cols
    /\ Len(BeforeOutliers(raw_data).rows) < Len(raw_data.rows)
    /\ Len(processed_data.rows) < Len(BeforeOutliers(raw_data).rows)
    /\ Len(processed_data.rows) > 0

\* clean_data is about to run / has run on its own output
ReClean == lastOp = "load_data" /\ raw_data = processed_data /\ lastOp' = "clean_data"

\* C8 as stated: cleaning the cleaner's output yields the same table
C8_Idempotent ==
    [][ReClean => (raised' = "none" /\ processed_data' = processed_data)]_vars

\* C8 amended: cleaning the cleaner's output changes no price and no column
\* and drops exactly the rows outside the fence recomputed on the cleaned
\* prices; on a cleaned table of more than three columns that lacks an
\* identity-key column it raises and leaves the cleaned table as it was
C8_RecleanDropsOnlyNewOutliers ==
    [][ReClean =>
        LET rows == processed_data.rows
            column == Prices(rows)
            inside(price) ==
                /\ 8 * price + 3 * Quantile4(column, 3) >= 5 * Quantile4(column, 1)
                /\ 8 * price + 3 * Quantile4(column, 1) <= 5 * Quantile4(column, 3)
        IN  IF Len(rows) > 0 /\ Cardinality(processed_data.cols) > 3
               /\ ~(IdentityKey \subseteq processed_data.cols)
            THEN raised' = "KeyError" /\ processed_data' = processed_data
            ELSE /\ raised' = "none"
                 /\ processed_data' =
                        [processed_data EXCEPT !.rows =
                            IF "price" \in processed_data.cols
                            THEN RowsWhere(rows, LAMBDA r : inside(r.price))
                            ELSE rows]]_vars

\* the second cleaning dropped a row of the cleaned table
C8_Witness ==
    /\ lastOp = "clean_data" /\ loads = 1 /\ raised = "none"
    /\ ~processed_data.isNone /\ ~raw_data.isNone
    /\ Len(processed_data.rows) < Len(raw_data.rows)

(***************************************************************************)
(* The pipeline on one table (SpecPipeline) and over several runs (Spec)   *)
(***************************************************************************)
MaxLoads == 2
MaxLifecycleRows == 1

\* SYD-MEL on a January Saturday and a June Monday at two prices, and LAX-MEL
\* on the Saturday; is_domestic as generate_mock_flight_data sets it for a
\* given origin
SeasonPool ==
    {FlightRow(r[1], "08:00", r[2], "MEL", r[3], "Qantas", 90, RouteIsDomestic(r[2], "MEL")) :
        r \in {<<"2024-01-06", "SYD", 40>>, <<"2024-06-03", "SYD", 40>>,
                <<"2024-06-03", "SYD", 80>>, <<"2024-01-06", "LAX", 40>>}}

PipelineTables(n) ==
    TablesOf({AllColumns, AllColumns \ {"price"}}, SeasonPool, n)
    \cup TablesOf({RequiredColumns \cup c : c \in SUBSET OptionalColumns}, ColumnPool, n)

LifecycleTables ==
    TablesOf({AllColumns, RequiredColumns, RequiredColumns \cup {"price"}},
             LifecyclePool, MaxLifecycleRows)

\* processor = DataProcessor()
Init ==
    /\ raw_data = None
    /\ processed_data = None
    /\ insights = NoInsights
    /\ raised = "none"
    /\ lastOp = "init"
    /\ loads = 0
    /\ AcquisitionIdle
    /\ NoPassCalled

\* DataProcessor(raw_data = t)
InitPipeline ==
    /\ raw_data \in PipelineTables(MaxRows)
    /\ processed_data = None
    /\ insights = NoInsights
    /\ raised = "none"
    /\ lastOp = "init"
    /\ loads = 1
    /\ AcquisitionIdle
    /\ NoPassCalled

LoadData ==
    /\ loads < MaxLoads
    /\ \E t \in LifecycleTables : Becomes(load_data(Self, t), "load_data")
    /\ loads' = loads + 1
    /\ UNCHANGED <<flight_data, acq, ran>>

RunAllAnalyses ==
    /\ \E emptyApplyRaises \in BOOLEAN :
          Becomes(run_all_analyses(Self, emptyApplyRaises), "run_all_analyses")
    /\ UNCHANGED <<loads, flight_data, acq, ran>>

Next == LoadData \/ RunAllAnalyses

Spec == Init /\ [][Next]_vars

NextPipeline == RunAllAnalyses

SpecPipeline == InitPipeline /\ [][NextPipeline]_vars

(***************************************************************************)
(* Claims about the pipeline                                               *)
(***************************************************************************)
\* C1: after a run the insights and the cleaned table are those a new
\* processor produces from the same input: nothing of an earlier run is left
C1_NothingSurvivesARun ==
    lastOp = "run_all_analyses" =>
        \E b \in BOOLEAN :
            LET fresh == run_all_analyses(load_data(NewProcessor, raw_data), b) IN
            insights = fresh.ins /\ processed_data = fresh.proc

\* C2: a run of a new processor on an empty table populates no key and raises nothing
C2_EmptyInputNoKeys ==
    (lastOp = "run_all_analyses" /\ loads = 1 /\ ~raw_data.isNone /\ Len(raw_data.rows) = 0)
        => (insights = NoInsights /\ raised = "none")

\* a new processor has run on an empty table
C2_Witness ==
    /\ lastOp = "run_all_analyses" /\ loads = 1
    /\ ~raw_data.isNone /\ Len(raw_data.rows) = 0 /\ "price" \in raw_data.cols

\* C3: on a table with origin and destination the run completes without an exception
C3_PipelineNeverRaises == lastOp = "run_all_analyses" => raised = "none"

\* C10: with an is_domestic column, domestic_flights + international_flights
\* = total_flights = the number of rows of the cleaned table
C10_SummaryConsistency ==
    (lastOp = "run_all_analyses" /\ "summary" \in DOMAIN insights
        /\ "is_domestic" \in processed_data.cols) =>
        /\ insights["summary"]["domestic_flights"] + insights["summary"]["international_flights"]
               = insights["summary"]["total_flights"]
        /\ insights["summary"]["total_flights"] = Len(processed_data.rows)

\* a summary over domestic and international rows, written after cleaning dropped rows
C10_Witness ==
    /\ lastOp = "run_all_analyses" /\ "summary" \in DOMAIN insights
    /\ "is_domestic" \in processed_data.cols
    /\ insights["summary"]["domestic_flights"] > 0
    /\ insights["summary"]["international_flights"] > 0
    /\ Len(processed_data.rows) < Len(raw_data.rows)

\* run_all_analyses has run and its cleaning step left a table
RanOnCleaned == lastOp = "run_all_analyses" /\ ~processed_data.isNone

TrendKeys == {"daily_price_trends", "weekly_price_trends"}
SeasonalKeys == {"monthly_patterns", "day_of_week_patterns", "peak_travel_periods"}
DistributionKeys == {"price_stats", "price_categories"}
DateKeys == TrendKeys \cup SeasonalKeys

Written(keys) == keys \subseteq DOMAIN insights
Absent(keys) == keys \cap DOMAIN insights = {}

\* flight_date is there and parsed
DatesParsed == "flight_date" \in processed_data.cols /\ processed_data.dt

\* C16: on a cleaned table with rows, a pass whose required column is absent
\* (price for the trends and the distribution, parsed dates for the trends,
\* month or parsed dates for the seasonal patterns) writes none of its keys,
\* nothing is raised, and every other pass writes its keys
C16_MissingColumnPolicy ==
    (RanOnCleaned /\ Len(processed_data.rows) > 0) =>
        LET noPrice == "price" \notin processed_data.cols
            noMonth == "month" \notin processed_data.cols /\ ~DatesParsed
        IN  (noPrice \/ ~DatesParsed) =>
                /\ raised = "none"
                /\ Absent(TrendKeys)
                /\ noPrice => Absent(DistributionKeys)
                /\ noMonth => Absent(SeasonalKeys)
                /\ ~noPrice => Written(DistributionKeys)
                /\ ~noMonth => Written(SeasonalKeys)
                /\ Written({"popular_routes", "market_opportunities", "summary"})

\* C17: when cleaning a table with rows leaves none, the run writes no key
\* and raises nothing
C17_EmptyCleanedNoKeys ==
    (RanOnCleaned /\ Len(raw_data.rows) > 0 /\ Len(processed_data.rows) = 0) =>
        (insights = NoInsights /\ raised = "none")

\* the raw table has a flight_date column that does not parse
UnparseableDate ==
    /\ lastOp = "run_all_analyses"
    /\ "flight_date" \in raw_data.cols
    /\ \E i \in Indices(raw_data.rows) : ~Parseable(raw_data.rows[i].flight_date)

\* nothing in the document that is derived from dates
NoDateOutputs ==
    /\ Absent(DateKeys)
    /\ "summary" \in DOMAIN insights =>
           {"busiest_day", "busiest_month", "weekend_price_premium"}
               \cap DOMAIN insights["summary"] = {}
    /\ "market_opportunities" \in DOMAIN insights =>
           \A i \in Indices(insights["market_opportunities"]) :
               insights["market_opportunities"][i].type = "high_demand_high_price"

\* C18: with an unparseable flight_date cleaning completes without the
\* calendar columns, the outputs derived from dates are absent, and
\* popular_routes, price_stats, price_categories, market_opportunities and
\* summary are written
C18_UnparseableDatePolicy ==
    UnparseableDate =>
        /\ ~processed_data.isNone
        /\ processed_data.cols \cap CalendarColumns = {}
        /\ NoDateOutputs
        /\ Written({"popular_routes", "market_opportunities", "summary"})
        /\ Written(DistributionKeys)

\* C18 as the code has it: cleaning completes unless the table has more than
\* three columns and lacks an identity-key column (KeyError, nothing is
\* written); otherwise the calendar columns and the outputs derived from dates
\* are absent, price_stats and price_categories are written iff there is a
\* price column, and popular_routes, market_opportunities and summary are
\* written, unless the cleaned table has no rows and analyze_popular_routes
\* raises ValueError before any key is written
C18_UnparseableDateAsCoded ==
    [][UnparseableDate' =>
        IF Cardinality(raw_data.cols) > 3 /\ ~(IdentityKey \subseteq raw_data.cols)
        THEN raised' = "KeyError" /\ processed_data'.isNone /\ insights' = insights
        ELSE /\ ~processed_data'.isNone
             /\ processed_data'.cols \cap CalendarColumns = {}
             /\ NoDateOutputs'
             /\ IF raised' # "none"
                THEN /\ raised' = "ValueError"
                     /\ Len(processed_data'.rows) = 0
                     /\ insights' = insights
                ELSE /\ Written({"popular_routes", "market_opportunities", "summary"})'
                     /\ IF "price" \in raw_data.cols THEN Written(DistributionKeys)'
                        ELSE Absent(DistributionKeys)']_vars

\* a complete table with an unparseable date has been analysed and rows remain
C18_Witness ==
    /\ UnparseableDate /\ raised = "none"
    /\ raw_data.cols = AllColumns
    /\ Len(processed_data.rows) = 2
    /\ Written(DistributionKeys \cup {"summary"})

(***************************************************************************)
(* The aggregation passes called one by one after cleaning (SpecPasses)    *)
(***************************************************************************)
MaxExtraRows == 2
MaxCategoryRows == 1

\* top_n = 10 in the signature of analyze_popular_routes
DefaultTopN == 10

\* the values of top_n the pass is called with
TopNs == {2, DefaultTopN}

\* four routes out of SYD on a June Monday, one of them international
BaseRoutes ==
    <<FlightRow("2024-06-03", "08:00", "SYD", "MEL", 40, "Qantas", 90, TRUE),
      FlightRow("2024-06-03", "08:00", "SYD", "BNE", 80, "Qantas", 90, TRUE),
      FlightRow("2024-06-03", "08:00", "SYD", "PER", 40, "Qantas", 300, TRUE),
      FlightRow("2024-06-03", "08:00", "SYD", "LAX", 40, "Qantas", 800, FALSE)>>

\* January flights on SYD-MEL, a Saturday at 10.00 and free ones on the
\* Saturday and the Monday
FreePool ==
    {FlightRow("2024-01-06", "08:00", "SYD", "MEL", 40, "Qantas", 90, TRUE),
     FlightRow("2024-01-06", "08:00", "SYD", "MEL", 0, "Virgin", 90, TRUE),
     FlightRow("2024-01-08", "08:00", "SYD", "MEL", 0, "Qantas", 90, TRUE)}

\* January flights that add demand to SYD-MEL and SYD-BNE
DemandPool ==
    {FlightRow("2024-01-06", "08:00", "SYD", "MEL", 40, "Qantas", 90, TRUE),
     FlightRow("2024-01-06", "08:00", "SYD", "MEL", 80, "Jetstar", 90, TRUE),
     FlightRow("2024-01-06", "08:00", "SYD", "BNE", 80, "Qantas", 90, TRUE)}

\* prices 0, 200, 500, 1000 and 1001 on one route
CategoryPool ==
    {FlightRow("2024-01-06", "08:00", "SYD", "MEL", pr, "Qantas", 90, TRUE) :
        pr \in {0, 800, 2000, 4000, 4004}}

PassTables(n, m) ==
    TablesOf({AllColumns}, FreePool, n)
    \cup {DataFrame(AllColumns, BaseRoutes \o extra) : extra \in SeqsUpTo(DemandPool, n)}
    \cup TablesOf({{"origin", "destination", "price"}}, CategoryPool, m)
    \cup TablesOf({AllColumns, AllColumns \ {"price"}, AllColumns \ {"flight_date"}},
                  ColumnPool, 2)

\* a call of one pass; top_n is NAInt for the passes without that argument
Call(op, top_n) == [op |-> op, top_n |-> top_n]

\* DataProcessor(raw_data = t)
InitPasses ==
    /\ raw_data \in PassTables(MaxExtraRows, MaxCategoryRows)
    /\ processed_data = None
    /\ insights = NoInsights
    /\ raised = "none"
    /\ lastOp = "init"
    /\ loads = 1
    /\ AcquisitionIdle
    /\ NoPassCalled

\* the caller cleans first, as run_all_analyses does
CleanFirst == lastOp = "init" /\ CleanData

\* the caller calls each pass once, after cleaning; an exception ends it
Calls(call) ==
    /\ lastOp # "init" /\ raised = "none"
    /\ \A c \in ran : c.op # call.op
    /\ ran' = ran \cup {call}
    /\ UNCHANGED <<loads, flight_data, acq>>

AnalyzePopularRoutes ==
    \E top_n \in TopNs, emptyApplyRaises \in BOOLEAN :
        /\ Calls(Call("analyze_popular_routes", top_n))
        /\ Becomes(analyze_popular_routes(Self, top_n, emptyApplyRaises), "pass")

AnalyzePriceTrends ==
    /\ Calls(Call("analyze_price_trends", NAInt))
    /\ Becomes(analyze_price_trends(Self), "pass")

AnalyzeSeasonalPatterns ==
    /\ Calls(Call("analyze_seasonal_patterns", NAInt))
    /\ Becomes(analyze_seasonal_patterns(Self), "pass")

AnalyzePriceDistribution ==
    /\ Calls(Call("analyze_price_distribution", NAInt))
    /\ Becomes(analyze_price_distribution(Self), "pass")

AnalyzeMarketOpportunities ==
    /\ Calls(Call("analyze_market_opportunities", NAInt))
    /\ Becomes(analyze_market_opportunities(Self), "pass")

GenerateSummaryInsights ==
    /\ Calls(Call("generate_summary_insights", NAInt))
    /\ Becomes(generate_summary_insights(Self), "pass")

NextPasses ==
    \/ CleanFirst
    \/ AnalyzePopularRoutes
    \/ AnalyzePriceTrends
    \/ AnalyzeSeasonalPatterns
    \/ AnalyzePriceDistribution
    \/ AnalyzeMarketOpportunities
    \/ GenerateSummaryInsights

SpecPasses == InitPasses /\ [][NextPasses]_vars

(***************************************************************************)
(* Claims about the passes                                                 *)
(***************************************************************************)
Called(op) == \E c \in ran : c.op = op

\* the rows of the cleaned table with a non-null price
PricedRows == RowsWhere(processed_data.rows, LAMBDA r : r.price # NaN)

CountOf(label) ==
    LET recs == insights["price_categories"]
        i == CHOOSE j \in Indices(recs) : recs[j].category = label
    IN  recs[i].count

\* the number of cleaned rows priced in [lo, hi), and in (lo, hi]
PricedFrom(lo, hi) ==
    Len(RowsWhere(processed_data.rows, LAMBDA r : r.price >= lo /\ r.price < hi))

PricedAbove(lo, hi) ==
    Len(RowsWhere(processed_data.rows, LAMBDA r : r.price > lo /\ r.price <= hi))

\* C11: the counts of price_categories add up to the number of rows of the
\* cleaned table with a non-null price, a price of 0 included
C11_CategoryCoverage ==
    "price_categories" \in DOMAIN insights =>
        Sum([i \in Indices(insights["price_categories"]) |->
                insights["price_categories"][i].count]) = Len(PricedRows)

\* C12: Budget counts the prices in [0, 200), Economy those in [200, 500),
\* Premium those in [500, 1000) and Luxury those from 1000 on
C12_LeftClosedBuckets ==
    "price_categories" \in DOMAIN insights =>
        /\ CountOf("Budget") = PricedFrom(0, 800)
        /\ CountOf("Economy") = PricedFrom(800, 2000)
        /\ CountOf("Premium") = PricedFrom(2000, 4000)
        /\ CountOf("Luxury") = PricedFrom(4000, Infinity)

\* C12 as the code has it: Budget counts the prices in (0, 200], Economy those
\* in (200, 500], Premium those in (500, 1000] and Luxury those above 1000; a
\* price of 0 is counted nowhere
C12_RightClosedBuckets ==
    "price_categories" \in DOMAIN insights =>
        /\ CountOf("Budget") = PricedAbove(0, 800)
        /\ CountOf("Economy") = PricedAbove(800, 2000)
        /\ CountOf("Premium") = PricedAbove(2000, 4000)
        /\ CountOf("Luxury") = PricedAbove(4000, Infinity)
        /\ Len(insights["price_categories"]) = 4

\* the categories of a table with a row at the boundary price 200 are counted
C12_Witness ==
    /\ "price_categories" \in DOMAIN insights
    /\ PricedFrom(800, 801) = 1 /\ CountOf("Budget") = 1

\* the six passes in the order of run_all_analyses
PassOrder ==
    <<"analyze_popular_routes", "analyze_price_trends", "analyze_seasonal_patterns",
      "analyze_price_distribution", "analyze_market_opportunities",
      "generate_summary_insights">>

PassNames == {PassOrder[i] : i \in Indices(PassOrder)}

\* the call of one pass on the processor p
RunPass(call, p, emptyApplyRaises) ==
    CASE call.op = "analyze_popular_routes" ->
             analyze_popular_routes(p, call.top_n, emptyApplyRaises)
      [] call.op = "analyze_price_trends" -> analyze_price_trends(p)
      [] call.op = "analyze_seasonal_patterns" -> analyze_seasonal_patterns(p)
      [] call.op = "analyze_price_distribution" -> analyze_price_distribution(p)
      [] call.op = "analyze_market_opportunities" -> analyze_market_opportunities(p)
      [] call.op = "generate_summary_insights" -> generate_summary_insights(p)

\* a new processor that has cleaned the table of this one
FreshlyCleaned == clean_data(load_data(NewProcessor, raw_data))

\* a step that is the call of one pass
PassCalled == ran' # ran

TheCall == CHOOSE c \in ran' : c \notin ran

\* every pass has been called, the first with its default top_n, none raised
AllPassesRan ==
    /\ \A op \in PassNames : Called(op)
    /\ Call("analyze_popular_routes", DefaultTopN) \in ran
    /\ raised = "none"

\* the keys each pass writes
OwnKeys(op) ==
    CASE op = "analyze_popular_routes" -> {"popular_routes"}
      [] op = "analyze_price_trends" -> {"daily_price_trends", "weekly_price_trends"}
      [] op = "analyze_seasonal_patterns" ->
             {"monthly_patterns", "day_of_week_patterns", "peak_travel_periods"}
      [] op = "analyze_price_distribution" -> {"price_stats", "price_categories"}
      [] op = "analyze_market_opportunities" -> {"market_opportunities"}
      [] op = "generate_summary_insights" -> {"summary"}

AllKeys == UNION {OwnKeys(op) : op \in PassNames}

Min(a, b) == IF a < b THEN a ELSE b

\* the distinct routes of the cleaned table and the rows on each
CleanedRoutes == {RouteOf(processed_data.rows[i]) : i \in Indices(processed_data.rows)}

RowsOn(r) == Len(OnRoute(processed_data.rows, r))

\* the value of top_n analyze_popular_routes was called with
TopNCalled == (CHOOSE c \in ran : c.op = "analyze_popular_routes").top_n

\* C13: popular_routes holds min(N, number of routes) records, one per
\* route, each with the number of cleaned rows on the route as frequency, in
\* non-increasing frequency, no omitted route more frequent than a listed
\* one, and is_domestic true iff both endpoints are Australian airports
C13_PopularRoutes ==
    ("popular_routes" \in DOMAIN insights /\ Called("analyze_popular_routes")) =>
        LET recs == insights["popular_routes"]
            listed == {<<recs[i].origin, recs[i].destination>> : i \in Indices(recs)}
        IN  /\ Len(recs) = Min(TopNCalled, Cardinality(CleanedRoutes))
            /\ Cardinality(listed) = Len(recs)
            /\ listed \subseteq CleanedRoutes
            /\ \A i \in Indices(recs) :
                   /\ recs[i].frequency = RowsOn(<<recs[i].origin, recs[i].destination>>)
                   /\ recs[i].is_domestic =
                          (recs[i].origin \in AUSTRALIAN_CITIES
                           /\ recs[i].destination \in AUSTRALIAN_CITIES)
                   /\ \A j \in Indices(recs) : i < j => recs[i].frequency >= recs[j].frequency
                   /\ \A r \in CleanedRoutes \ listed : RowsOn(r) <= recs[i].frequency

\* the top two of more than two routes, the first more frequent than the second
C13_Witness ==
    /\ "popular_routes" \in DOMAIN insights /\ Called("analyze_popular_routes")
    /\ TopNCalled = 2
    /\ Cardinality(CleanedRoutes) > 2
    /\ Len(insights["popular_routes"]) = 2
    /\ insights["popular_routes"][1].frequency > insights["popular_routes"][2].frequency

\* the processor as it is, with an empty insights document
Blank == [Self EXCEPT !.ins = NoInsights]

\* a pass changes and adds only its own keys, removes none, and writes what
\* it writes into an empty document
WritesOnlyOwnKeys ==
    PassCalled =>
        /\ DOMAIN insights \subseteq DOMAIN insights'
        /\ \A k \in DOMAIN insights' :
               (k \notin DOMAIN insights \/ insights'[k] # insights[k])
                   => k \in OwnKeys(TheCall.op)
        /\ \E b \in BOOLEAN : \E blank \in {RunPass(TheCall, Blank, b)} :
               /\ raised' = blank.exc
               /\ \A k \in OwnKeys(TheCall.op) :
                      /\ k \in DOMAIN insights' <=> k \in DOMAIN blank.ins
                      /\ k \in DOMAIN insights' => insights'[k] = blank.ins[k]

\* C14: within a run each pass writes only its own keys, no key belongs to
\* two passes (so each is written at most once), and no pass reads, overwrites
\* or removes a key of another pass
C14_WriteOnceIsolation ==
    [][/\ WritesOnlyOwnKeys
       /\ \A a, b \in PassNames : a # b => OwnKeys(a) \cap OwnKeys(b) = {}
       /\ DOMAIN insights' \subseteq AllKeys]_vars

\* all six passes have run and all ten keys are written
C14_Witness ==
    /\ \A op \in PassNames : Called(op)
    /\ DOMAIN insights = AllKeys

\* a pass called after others writes and raises what it does as the first pass
\* after cleaning
SameAsAlone ==
    PassCalled =>
        \E b \in BOOLEAN, fresh \in {FreshlyCleaned} :
            \E alone \in {RunPass(TheCall, fresh, b)} :
                /\ raised' = alone.exc
                /\ \A k \in DOMAIN alone.ins :
                       k \in DOMAIN insights' /\ insights'[k] = alone.ins[k]
                /\ \A k \in (DOMAIN insights') \ (DOMAIN insights) : k \in DOMAIN alone.ins

\* the step leaves the insights run_all_analyses leaves on the same table
\* (no pass changes raw_data)
SameAsFixedOrder ==
    \E b \in BOOLEAN :
        insights' = run_all_analyses(load_data(NewProcessor, raw_data), b).ins

\* C15: the six passes called in any order leave the insights that
\* run_all_analyses leaves, and what a pass writes does not depend on the
\* passes called before it
C15_OrderIndependence ==
    [][SameAsAlone /\ (AllPassesRan' => SameAsFixedOrder)]_vars

\* all six passes have run on a table that yields opportunities
C15_Witness ==
    /\ AllPassesRan
    /\ {"market_opportunities", "weekly_price_trends"} \subseteq DOMAIN insights
    /\ Len(insights["market_opportunities"]) > 0

Opportunities == insights["market_opportunities"]

\* the least monthly median price of an origin in the cleaned table
MinMonthly2(origin) ==
    LET mp == MonthlyPrices(processed_data.rows)
        of_origin == RowsWhere(mp, LAMBDA r : r.origin = origin)
    IN  KthSmallest([i \in Indices(of_origin) |-> of_origin[i].price2], 0)

\* C19: no weekend_premium record is emitted for a route whose weekday
\* median price is 0 and no seasonal_variation record for an origin whose
\* least monthly median price is 0
C19_ZeroDenominatorGuard ==
    "market_opportunities" \in DOMAIN insights =>
        \A i \in Indices(Opportunities) :
            /\ Opportunities[i].type = "weekend_premium"
                   => Opportunities[i].weekday_price2 # 0
            /\ Opportunities[i].type = "seasonal_variation"
                   => MinMonthly2(Opportunities[i].origin) # 0

RuleRank(type) ==
    CASE type = "high_demand_high_price" -> 1
      [] type = "weekend_premium" -> 2
      [] type = "seasonal_variation" -> 3

\* C20: in market_opportunities the high_demand_high_price records come
\* first, then the weekend_premium records, then the seasonal_variation ones
C20_OpportunityOrdering ==
    "market_opportunities" \in DOMAIN insights =>
        \A i, j \in Indices(Opportunities) :
            i < j => RuleRank(Opportunities[i].type) <= RuleRank(Opportunities[j].type)

\* one table yields records of all three rules
C20_Witness ==
    /\ "market_opportunities" \in DOMAIN insights
    /\ \A t \in {"high_demand_high_price", "weekend_premium", "seasonal_variation"} :
           \E i \in Indices(Opportunities) : Opportunities[i].type = t

(***************************************************************************)
(* The opportunity heuristics on their own (SpecOpportunities)             *)
(***************************************************************************)
MaxWideRoutes == 12

\* the destinations out of SYD and out of MEL, in code order
DestinationsFrom(origin) == SelectSeq(AirportOrder, LAMBDA c : c # origin)

\* k routes out of SYD flown on a Monday at 10.00 and on the Saturday before
\* at 14.00, 14.50, ..., and k + 1 routes out of MEL flown once at 10.00
WideRecords(k) ==
    [i \in 1..k |-> FlightRow("2024-01-08", "08:00", "SYD", DestinationsFrom("SYD")[i],
                              40, "Qantas", 90, FALSE)]
    \o [i \in 1..k |-> FlightRow("2024-01-06", "08:00", "SYD", DestinationsFrom("SYD")[i],
                                 54 + 2 * i, "Qantas", 90, FALSE)]
    \o [i \in 1..(k + 1) |-> FlightRow("2024-01-08", "08:00", "MEL", DestinationsFrom("MEL")[i],
                                       40, "Qantas", 90, FALSE)]

OpportunityTables(n, m, k) ==
    TablesOf({AllColumns}, FreePool, n)
    \cup {DataFrame(AllColumns, BaseRoutes \o extra) : extra \in SeqsUpTo(DemandPool, n)}
    \cup TablesOf({AllColumns}, SeasonPool, m)
    \cup {DataFrame(AllColumns, WideRecords(j)) : j \in {k - 2, k}}

\* DataProcessor(raw_data = t)
InitOpportunities ==
    /\ raw_data \in OpportunityTables(MaxExtraRows, MaxRows, MaxWideRoutes)
    /\ processed_data = None
    /\ insights = NoInsights
    /\ raised = "none"
    /\ lastOp = "init"
    /\ loads = 1
    /\ AcquisitionIdle
    /\ NoPassCalled

NextOpportunities == CleanFirst \/ AnalyzeMarketOpportunities

SpecOpportunities == InitOpportunities /\ [][NextOpportunities]_vars

(***************************************************************************)
(* Claims about the opportunity heuristics                                 *)
(***************************************************************************)
\* the records of one rule, in their order in market_opportunities
RecordsOf(type) == RowsWhere(Opportunities, LAMBDA r : r.type = type)

RouteList == SortedBy(CleanedRoutes, RouteRank)

\* twice the median price of a route of the cleaned table
RoutePrice2(r) == Median2(Prices(OnRoute(processed_data.rows, r)))

\* the routes flown more often than the median route
HighDemandRoutes ==
    {r \in CleanedRoutes :
        2 * RowsOn(r) > Median2([i \in Indices(RouteList) |-> RowsOn(RouteList[i])])}

\* those of them priced above the median of their median prices
HighPriceRoutes ==
    LET high == SortedBy(HighDemandRoutes, RouteRank) IN
    {r \in HighDemandRoutes :
        2 * RoutePrice2(r) > Median2([i \in Indices(high) |-> RoutePrice2(high[i])])}

\* C21: the high_demand_high_price records are the first 5, in grouped
\* (origin, destination) order, of the routes whose frequency is above the
\* median route frequency and whose median price is above the median of the
\* median prices of those routes, each with its frequency and median price;
\* none when all routes are equally frequent or only one is high-demand
C21_HighDemandHighPrice ==
    ("market_opportunities" \in DOMAIN insights /\ "price" \in processed_data.cols) =>
        LET recs == RecordsOf("high_demand_high_price")
            expected == SortedBy(HighPriceRoutes, RouteRank)
        IN  /\ Len(recs) = Min(5, Len(expected))
            /\ \A i \in Indices(recs) :
                   /\ <<recs[i].origin, recs[i].destination>> = expected[i]
                   /\ recs[i].frequency = RowsOn(expected[i])
                   /\ recs[i].median_price2 = RoutePrice2(expected[i])
            /\ Cardinality(HighDemandRoutes) <= 1 => Len(recs) = 0
            /\ (\A r, q \in CleanedRoutes : RowsOn(r) = RowsOn(q)) => Len(recs) = 0

\* six routes qualify and five records are emitted
C21_Witness ==
    /\ "market_opportunities" \in DOMAIN insights /\ "price" \in processed_data.cols
    /\ Cardinality(HighPriceRoutes) = 6
    /\ Len(RecordsOf("high_demand_high_price")) = 5

\* the weekday (w = 0) or weekend (w = 1) prices of a route of the cleaned table
SidePrices(r, w) ==
    Prices(RowsWhere(OnRoute(processed_data.rows, r), LAMBDA row : row.is_weekend = w))

\* weekend / weekday > 1.3 as the float division has it: x / 0 is inf for
\* x > 0 and NaN for x = 0 (the zero weekday price is the case of C19)
ExceedsRatio13(weekend2, weekday2) ==
    IF weekday2 = 0 THEN weekend2 > 0 ELSE 10 * weekend2 > 13 * weekday2

\* the routes with weekend and weekday rows and a weekend premium above 1.3
PremiumRoutes ==
    {r \in CleanedRoutes :
        /\ Len(SidePrices(r, 0)) > 0 /\ Len(SidePrices(r, 1)) > 0
        /\ ExceedsRatio13(Median2(SidePrices(r, 1)), Median2(SidePrices(r, 0)))}

PremiumOf(r) == Median2(SidePrices(r, 1)) - Median2(SidePrices(r, 0))

\* C22: the weekend_premium records are the (at most) 5 routes with weekend
\* and weekday rows and a weekend / weekday median price ratio above 1.3 that
\* have the largest price difference, in descending order of it, each with
\* weekday_price, weekend_price and price_difference = weekend - weekday
C22_WeekendPremium ==
    ("market_opportunities" \in DOMAIN insights
        /\ {"price", "is_weekend"} \subseteq processed_data.cols) =>
        LET recs == RecordsOf("weekend_premium")
            listed == {<<recs[i].origin, recs[i].destination>> : i \in Indices(recs)}
        IN  /\ listed \subseteq PremiumRoutes
            /\ Cardinality(listed) = Len(recs)
            /\ Len(recs) = Min(5, Cardinality(PremiumRoutes))
            /\ \A i \in Indices(recs) :
                   LET r == <<recs[i].origin, recs[i].destination>> IN
                   /\ recs[i].weekday_price2 = Median2(SidePrices(r, 0))
                   /\ recs[i].weekend_price2 = Median2(SidePrices(r, 1))
                   /\ recs[i].price_difference2 = recs[i].weekend_price2 - recs[i].weekday_price2
                   /\ recs[i].price_difference2 >= 0
                   /\ \A j \in Indices(recs) :
                          i < j => recs[i].price_difference2 >= recs[j].price_difference2
                   /\ \A q \in PremiumRoutes \ listed :
                          PremiumOf(q) <= recs[i].price_difference2

\* more than five routes qualify and the five with the largest difference
\* are listed, the largest first
C22_Witness ==
    /\ "market_opportunities" \in DOMAIN insights
    /\ {"price", "is_weekend"} \subseteq processed_data.cols
    /\ Cardinality(PremiumRoutes) > 5
    /\ Len(RecordsOf("weekend_premium")) = 5
    /\ RecordsOf("weekend_premium")[1].price_difference2
           > RecordsOf("weekend_premium")[5].price_difference2

\* the (destination, month) groups of an origin in the cleaned table
SeasonalGroups(origin) ==
    RowsWhere(MonthlyPrices(processed_data.rows), LAMBDA g : g.origin = origin)

SeasonalRecords(origin) ==
    RowsWhere(RecordsOf("seasonal_variation"), LAMBDA r : r.origin = origin)

\* C23: after analyze_market_opportunities on a cleaned table with month and
\* price, nothing is raised and every origin with more than one
\* (destination, month) group has exactly one seasonal_variation record iff
\* its greatest monthly median price is more than 1.5 times its least, naming
\* the destination and month of a group with the greatest median, the month
\* of a group with the least, and the ratio; any other origin has none
C23_SeasonalVariation ==
    (Called("analyze_market_opportunities")
        /\ {"month", "price"} \subseteq processed_data.cols) =>
        /\ raised = "none"
        /\ "market_opportunities" \in DOMAIN insights
        /\ \A n \in Indices(processed_data.rows) :
               LET row == processed_data.rows[n]
                   groups == SeasonalGroups(row.origin)
                   prices2 == [i \in Indices(groups) |-> groups[i].price2]
                   max2 == KthSmallest(prices2, Len(groups) - 1)
                   min2 == KthSmallest(prices2, 0)
                   recs == SeasonalRecords(row.origin)
               IN  IF Len(groups) > 1 /\ min2 > 0 /\ 2 * max2 > 3 * min2
                   THEN /\ Len(recs) = 1
                        /\ recs[1].price_ratio = Frac(max2, min2)
                        /\ \E g \in Indices(groups) :
                               /\ groups[g].price2 = max2
                               /\ recs[1].destination = groups[g].destination
                               /\ recs[1].high_price_month = MonthName[groups[g].month]
                        /\ \E g \in Indices(groups) :
                               /\ groups[g].price2 = min2
                               /\ recs[1].low_price_month = MonthName[groups[g].month]
                   ELSE Len(recs) = 0

Summary == insights["summary"]

DomesticRows == RowsWhere(processed_data.rows, LAMBDA r : r.is_domestic = TRUE)
InternationalRows == RowsWhere(processed_data.rows, LAMBDA r : r.is_domestic = FALSE)

SummaryWithSubsets ==
    /\ "summary" \in DOMAIN insights
    /\ {"price", "is_domestic"} \subseteq processed_data.cols

\* C24: when the domestic or the international subset of the cleaned table is
\* empty, the summary has neither avg_domestic_price nor
\* avg_international_price
C24_BothSubsetsOrNeither ==
    (SummaryWithSubsets /\ (Len(DomesticRows) = 0 \/ Len(InternationalRows) = 0)) =>
        /\ "avg_domestic_price" \notin DOMAIN Summary
        /\ "avg_international_price" \notin DOMAIN Summary

\* C24 as coded: each average is reported iff its own subset of the cleaned
\* table is non-empty, whatever the other subset holds, and is the rounded
\* mean price of that subset
C24_EachSubsetOwnAverage ==
    SummaryWithSubsets =>
        /\ "avg_domestic_price" \in DOMAIN Summary <=> Len(DomesticRows) > 0
        /\ "avg_international_price" \in DOMAIN Summary <=> Len(InternationalRows) > 0
        /\ Len(DomesticRows) > 0 =>
               Summary["avg_domestic_price"] = RoundedMean(Prices(DomesticRows))
        /\ Len(InternationalRows) > 0 =>
               Summary["avg_international_price"] = RoundedMean(Prices(InternationalRows))

\* a summary of a table with domestic rows only, reporting the domestic average
C24_Witness ==
    /\ SummaryWithSubsets
    /\ Len(DomesticRows) > 0 /\ Len(InternationalRows) = 0
    /\ "avg_domestic_price" \in DOMAIN Summary
    /\ "avg_international_price" \notin DOMAIN Summary

\* the number of rows of the cleaned table in a month
RowsInMonth(m) == Len(RowsWhere(processed_data.rows, LAMBDA r : r.month = m))

\* C25: after analyze_seasonal_patterns on a cleaned table with month and
\* day_of_week and without price, nothing is raised, monthly_patterns and
\* day_of_week_patterns are written with the number of rows of each group as
\* flight_count, and peak_travel_periods names at most two months
C25_SeasonalWithoutPrice ==
    (Called("analyze_seasonal_patterns")
        /\ {"month", "day_of_week"} \subseteq processed_data.cols
        /\ "price" \notin processed_data.cols) =>
        /\ raised = "none"
        /\ SeasonalKeys \subseteq DOMAIN insights
        /\ \A i \in Indices(insights["monthly_patterns"]) :
               insights["monthly_patterns"][i].flight_count
                   = RowsInMonth(insights["monthly_patterns"][i].month)
        /\ Len(insights["peak_travel_periods"])
               = Min(2, Len(insights["monthly_patterns"]))

\* C26: after any sequence of passes the cleaned table has the rows, columns
\* and values it had when clean_data returned
C26_CleanedTableReadOnly ==
    lastOp = "pass" => processed_data = FreshlyCleaned.proc

(***************************************************************************)
(* Acquisition layer (data_collector.py), SpecAcquire                      *)
(***************************************************************************)
MaxFlights == 2

\* origin = None
NoOrigin == "None"

\* the airports the random choices and the API answers are drawn from
AirportSample == {"SYD", "MEL", "LAX", "SIN", "MEX"}

\* code[:2]
IataPrefix ==
    [c \in AirportSample |->
        CASE c = "SYD" -> "SY" [] c = "MEL" -> "ME" [] c = "LAX" -> "LA"
          [] c = "SIN" -> "SI" [] c = "MEX" -> "ME"]

\* possible_destinations of generate_mock_flight_data
possible_destinations(origin) ==
    IF origin # NoOrigin
    THEN IF origin \in AUSTRALIAN_CITIES
         THEN (AUSTRALIAN_CITIES \cup POPULAR_INTERNATIONAL_DESTINATIONS) \ {origin}
         ELSE AUSTRALIAN_CITIES
    ELSE AUSTRALIAN_CITIES \cup POPULAR_INTERNATIONAL_DESTINATIONS

\* one iteration of the inner loop of generate_mock_flight_data on Saturday
\* 2024-01-06 (a weekend day in a peak month): base is the drawn base price,
\* noise the drawn adjustment, rowOrigin the draw used when origin is None
MockFlight(origin, destination, base, noise, rowOrigin) ==
    LET is_domestic == origin \in AUSTRALIAN_CITIES /\ destination \in AUSTRALIAN_CITIES
        weekend == (base * 12) \div 10
        peak == (weekend * 13) \div 10
        final_price == IF peak + noise < 100 THEN 100 ELSE peak + noise
    IN  FlightRow("2024-01-06", "08:00",
                  IF origin # NoOrigin THEN origin ELSE rowOrigin,
                  destination, 4 * final_price, "Qantas",
                  IF is_domestic THEN 60 ELSE 180, is_domestic)

\* the base prices drawn for a domestic / an international flight (range ends)
BasePrices(origin, destination) ==
    IF origin \in AUSTRALIAN_CITIES /\ destination \in AUSTRALIAN_CITIES
    THEN {120, 500} ELSE {500, 2000}

\* the row get_flight_data builds from one AviationStack flight
ApiFlight(dep, arr) ==
    FlightRow("2024-01-06", "08:00", dep, arr, NaN, "Qantas", NAInt,
              IataPrefix[dep] = IataPrefix[arr])

InitAcquire ==
    /\ raw_data = None
    /\ processed_data = None
    /\ insights = NoInsights
    /\ raised = "none"
    /\ lastOp = "init"
    /\ loads = 0
    /\ AcquisitionIdle
    /\ NoPassCalled

\* generate_mock_flight_data(origin) is called
CallGenerateMock ==
    /\ acq.pc = "idle"
    /\ \E origin \in {NoOrigin, "SYD", "LAX"} :
          acq' = [pc |-> "mock", origin |-> origin]
    /\ flight_data' = <<>>
    /\ UNCHANGED <<raw_data, processed_data, insights, raised, lastOp, loads, ran>>

\* get_flight_data(city_code): with an API key and a non-empty answer it maps
\* the answer, otherwise it falls back to generate_mock_flight_data(city_code)
GetFlightData ==
    /\ acq.pc = "idle"
    /\ \E city_code \in {"SYD", "LAX"}, hasKey \in BOOLEAN,
          data \in SeqsUpTo(AirportSample \X AirportSample, MaxFlights) :
          IF hasKey /\ Len(data) > 0
          THEN /\ flight_data' = [i \in Indices(data) |->
                       [ApiFlight(data[i][1], data[i][2]) EXCEPT !.index = i - 1]]
               /\ acq' = [pc |-> "returned", origin |-> city_code]
          ELSE /\ flight_data' = <<>>
               /\ acq' = [pc |-> "mock", origin |-> city_code]
    /\ UNCHANGED <<raw_data, processed_data, insights, raised, lastOp, loads, ran>>

\* flight_data.append(...) in generate_mock_flight_data
MockAppend ==
    /\ acq.pc = "mock"
    /\ Len(flight_data) < MaxFlights
    /\ \E destination \in possible_destinations(acq.origin) \cap AirportSample,
          rowOrigin \in AUSTRALIAN_CITIES \cap AirportSample, noise \in {-50, 100} :
          \E base \in BasePrices(acq.origin, destination) :
              flight_data' = Append(flight_data,
                  [MockFlight(acq.origin, destination, base, noise, rowOrigin)
                      EXCEPT !.index = Len(flight_data)])
    /\ UNCHANGED <<raw_data, processed_data, insights, raised, lastOp, loads, acq, ran>>

\* return pd.DataFrame(flight_data)
MockReturn ==
    /\ acq.pc = "mock"
    /\ acq' = [acq EXCEPT !.pc = "returned"]
    /\ UNCHANGED <<raw_data, processed_data, insights, raised, lastOp, loads, flight_data, ran>>

NextAcquire == CallGenerateMock \/ GetFlightData \/ MockAppend \/ MockReturn

SpecAcquire == InitAcquire /\ [][NextAcquire]_vars

\* C9: in every row the acquisition layer builds, is_domestic holds iff
\* origin and destination are both in the domestic airport set
C9_DomesticClassification ==
    \A i \in Indices(flight_data) :
        flight_data[i].is_domestic <=>
            (flight_data[i].origin \in AUSTRALIAN_CITIES
                /\ flight_data[i].destination \in AUSTRALIAN_CITIES)

(***************************************************************************)
(* The API clients of data_collector.py and their retry loops, SpecRetry   *)
(***************************************************************************)
MaxCalls == 2
MaxTicks == 2

MAX_API_RETRIES == 3

\* requests.exceptions.RequestException in place of a response
RequestFailed == 0

\* what one HTTP request can end in: a status code or a RequestException
Outcomes == {200, 429, 401, 500, RequestFailed}

\* self.token = None
NoToken == "None"

TokenValues == {"t1", "t2"}

\* what the POST to the token endpoint can end in; expires_in is in seconds
TokenResponses ==
    {[status |-> 200, access_token |-> v, expires_in |-> e] :
        v \in TokenValues, e \in {30, 90}}
    \cup {[status |-> s, access_token |-> NoToken, expires_in |-> 0] :
        s \in {401, RequestFailed}}

\* handle_api_error(response, service_name): the exception it raises; it
\* returns None when it raises nothing
handle_api_error(status) == IF status = 429 THEN "APIRateLimitError" ELSE "none"

\* the clients before any call: AmadeusAPI.__init__ sets token = None and
\* token_expires = 0.  requests lists the data requests of the current call
\* (status, and the number of the token grant the request carried), waits
\* the rate-limit sleeps; grants and posts count the tokens granted and the
\* POSTs to the token endpoint, rejected holds the grants answered with 401,
\* now is time.time() in seconds.
RetryIdle ==
    [pc |-> "idle", client |-> "None", caller |-> "None", origin |-> NoOrigin,
     attempt |-> 0, requests |-> <<>>, waits |-> <<>>, result |-> "pending",
     exc |-> "none", body |-> <<>>,
     token |-> NoToken, token_expires |-> 0, tokenGrant |-> 0,
     header |-> NoToken, headerGrant |-> 0,
     rejected |-> {}, now |-> 0, grants |-> 0, posts |-> 0, calls |-> 0, ticks |-> 0]

\* a method of a client is entered; the token cache and the clock stay
Begin(a, client, caller, origin) ==
    [a EXCEPT !.pc = "loop", !.client = client, !.caller = caller, !.origin = origin,
              !.attempt = 0, !.requests = <<>>, !.waits = <<>>, !.result = "pending",
              !.exc = "none", !.body = <<>>, !.header = NoToken, !.headerGrant = 0,
              !.calls = @ + 1]

\* variant: one iteration more
Exhausted_OneMore(attempt) == attempt > MAX_API_RETRIES

\* for attempt in range(config.MAX_API_RETRIES): the range is used up
Exhausted(attempt) == attempt >= MAX_API_RETRIES

\* return value (the JSON body or None), or the exception that leaves the method
Return(a, value, exc) == [a EXCEPT !.pc = "returned", !.result = value, !.exc = exc]

\* continue: the next iteration, or the return None after the loop
Continue(a) ==
    LET next == [a EXCEPT !.attempt = @ + 1]
    IN  IF Exhausted(next.attempt) THEN Return(next, "None", "none") ELSE next

Sent(a, outcome) ==
    [a EXCEPT !.requests = Append(@, [status |-> outcome, grant |-> a.headerGrant])]

\* variant: a 429 is not retried and goes to handle_api_error
RetryStep_NoRateLimitBranch(a, outcome) ==
    LET sent == Sent(a, outcome)
    IN  CASE outcome = 200 -> Return(sent, "json", "none")
          [] outcome = RequestFailed -> Continue(sent)
          [] OTHER -> Return(sent, "None", handle_api_error(outcome))

\* one iteration of the retry loop of OpenSkyAPI.get_flights_by_airport:
\* the request and what follows from its outcome
RetryStep(a, outcome) ==
    LET sent == Sent(a, outcome)
    IN  CASE outcome = 200 -> Return(sent, "json", "none")
          [] outcome = 429 ->
                Continue([sent EXCEPT !.waits = Append(@, Min(2 ^ a.attempt, 60))])
          [] outcome = RequestFailed -> Continue(sent)
          [] OTHER -> Return(sent, "None", handle_api_error(outcome))

get_flights_by_airport(a, outcome) == RetryStep(a, outcome)

\* one iteration of the retry loop of AviationStackAPI.get_flights, the same
\* statements as in OpenSkyAPI.get_flights_by_airport
get_flights(a, outcome) == RetryStep(a, outcome)

\* AmadeusAPI._get_access_token: the client after the call and the token
\* returned (NoToken for None); post is what the POST ends in if one is made
get_access_token(a, post) ==
    IF a.token # NoToken /\ a.now < a.token_expires
    THEN [self |-> a, token |-> a.token]
    ELSE LET posted == [a EXCEPT !.posts = @ + 1]
         IN  IF post.status = 200
             THEN [self |-> [posted EXCEPT !.token = post.access_token,
                                           !.token_expires = a.now + post.expires_in - 30,
                                           !.grants = @ + 1,
                                           !.tokenGrant = a.grants + 1],
                   token |-> post.access_token]
             ELSE [self |-> posted, token |-> NoToken]

\* headers["Authorization"] = f"Bearer {token}"
Authorize(a, token) == [a EXCEPT !.header = token, !.headerGrant = a.tokenGrant]

\* variant: the rejected token stays cached
Unauthorized_KeepsToken(a, post) ==
    LET got == get_access_token([a EXCEPT !.rejected = @ \cup {a.headerGrant}], post)
    IN  IF got.token # NoToken
        THEN Continue(Authorize(got.self, got.token))
        ELSE Return(got.self, "None", handle_api_error(401))

\* the 401 branch of search_flight_offers
Unauthorized(a, post) ==
    LET got == get_access_token([a EXCEPT !.token = NoToken,
                                          !.rejected = @ \cup {a.headerGrant}], post)
    IN  IF got.token # NoToken
        THEN Continue(Authorize(got.self, got.token))
        ELSE Return(got.self, "None", handle_api_error(401))

\* AmadeusAPI.search_flight_offers up to its loop
search_flight_offers(a, origin, post) ==
    LET got == get_access_token(Begin(a, "Amadeus", "direct", origin), post)
    IN  IF got.token = NoToken THEN Return(got.self, "None", "none")
        ELSE Authorize(got.self, got.token)

\* one iteration of the retry loop of search_flight_offers
SearchStep(a, outcome, post) ==
    IF outcome = 401 THEN Unauthorized(Sent(a, outcome), post)
    ELSE RetryStep(a, outcome)

InitRetry ==
    /\ raw_data = None
    /\ processed_data = None
    /\ insights = NoInsights
    /\ raised = "none"
    /\ lastOp = "init"
    /\ loads = 0
    /\ flight_data = <<>>
    /\ acq = RetryIdle
    /\ NoPassCalled

\* the caller is between two calls
Callable ==
    /\ acq.pc \in {"idle", "returned"}
    /\ raised = "none"
    /\ acq.calls < MaxCalls

CallOpenSky ==
    /\ Callable
    /\ \E airport \in {"SYD"} : acq' = Begin(acq, "OpenSky", "direct", airport)
    /\ flight_data' = <<>>
    /\ UNCHANGED <<raw_data, processed_data, insights, raised, lastOp, loads, ran>>

CallAviationStack ==
    /\ Callable
    /\ \E dep_iata \in {"SYD"} :
          acq' = Begin(acq, "AviationStack", "direct", dep_iata)
    /\ flight_data' = <<>>
    /\ UNCHANGED <<raw_data, processed_data, insights, raised, lastOp, loads, ran>>

CallAmadeus ==
    /\ Callable
    /\ \E origin \in {"SYD"}, post \in TokenResponses :
          acq' = search_flight_offers(acq, origin, post)
    /\ flight_data' = <<>>
    /\ UNCHANGED <<raw_data, processed_data, insights, raised, lastOp, loads, ran>>

\* the answers of AviationStack get_flight_data is given here: no flight, one, two
ApiAnswers == {<<>>, <<<<"SYD", "MEL">>>>, <<<<"SYD", "MEL">>, <<"MEL", "MEX">>>>}

\* the tables generate_mock_flight_data(origin) returns here: none or one
\* flight (days = 0 gives the table without rows)
MockTables(origin) ==
    {<<>>} \cup
    {<<[MockFlight(origin, destination, base, 100, origin) EXCEPT !.index = 0]>> :
        destination \in possible_destinations(origin) \cap {"MEL", "LAX"},
        base \in {120}}

\* get_flight_data(city_code) up to the retry loop of get_flights; without
\* an API key it returns generate_mock_flight_data(city_code) at once
CallGetFlightData ==
    /\ Callable
    /\ \E city_code \in {"SYD", "LAX"}, hasKey \in BOOLEAN :
          IF hasKey
          THEN /\ acq' = Begin(acq, "AviationStack", "get_flight_data", city_code)
               /\ flight_data' = <<>>
          ELSE /\ acq' = [Begin(acq, "None", "get_flight_data", city_code)
                            EXCEPT !.pc = "returned"]
               /\ flight_data' \in MockTables(city_code)
    /\ UNCHANGED <<raw_data, processed_data, insights, raised, lastOp, loads, ran>>

\* one request of a direct call of a client method and what the method does
\* with its outcome
Request ==
    /\ acq.pc = "loop" /\ acq.caller = "direct"
    /\ \E outcome \in Outcomes, post \in TokenResponses :
          \E after \in {CASE acq.client = "OpenSky" -> get_flights_by_airport(acq, outcome)
                          [] acq.client = "AviationStack" -> get_flights(acq, outcome)
                          [] OTHER -> SearchStep(acq, outcome, post)} :
              /\ acq' = after
              /\ raised' = after.exc
    /\ UNCHANGED <<raw_data, processed_data, insights, lastOp, loads, flight_data, ran>>

\* one request of get_flights called by get_flight_data; when get_flights
\* returns, get_flight_data maps the rows of a non-empty answer and falls
\* back to generate_mock_flight_data otherwise
RequestForFlightData ==
    /\ acq.pc = "loop" /\ acq.caller = "get_flight_data"
    /\ \E outcome \in Outcomes,
          data \in ApiAnswers :
          \E after \in {get_flights(acq, outcome)} :
              /\ raised' = after.exc
              /\ IF after.pc # "returned" \/ after.exc # "none"
                 THEN acq' = after /\ flight_data' = <<>>
                 ELSE IF after.result = "json" /\ Len(data) > 0
                 THEN /\ acq' = [after EXCEPT !.body = data]
                      /\ flight_data' = [i \in Indices(data) |->
                             [ApiFlight(data[i][1], data[i][2]) EXCEPT !.index = i - 1]]
                 ELSE /\ acq' = after
                      /\ flight_data' \in MockTables(acq.origin)
    /\ UNCHANGED <<raw_data, processed_data, insights, lastOp, loads, ran>>

\* time passes, 30 seconds at a time (the sleeps of the loops are part of it)
Tick ==
    /\ acq.ticks < MaxTicks
    /\ raised = "none"
    /\ acq' = [acq EXCEPT !.now = @ + 30, !.ticks = @ + 1]
    /\ UNCHANGED <<raw_data, processed_data, insights, raised, lastOp, loads, flight_data, ran>>

NextRetry ==
    \/ CallOpenSky \/ CallAviationStack \/ CallAmadeus \/ CallGetFlightData
    \/ Request \/ RequestForFlightData \/ Tick

SpecRetry == InitRetry /\ [][NextRetry]_vars

Requests == acq.requests

LastStatus == Requests[Len(Requests)].status

\* a status after which the method goes on to its next attempt
Retried(status) ==
    \/ status \in {429, RequestFailed}
    \/ acq.client = "Amadeus" /\ status = 401

\* C27: a call of get_flights_by_airport, get_flights or
\* search_flight_offers makes at most MAX_API_RETRIES data requests and has
\* returned once it made that many; a 200 is its last request and returns the
\* body; a status other than 200, 429 (and 401 for Amadeus) is its last
\* request and returns None; it returns None when no request ended in 200
C27_BoundedRetry ==
    acq.client # "None" =>
        /\ Len(Requests) <= MAX_API_RETRIES
        /\ Len(Requests) = MAX_API_RETRIES => acq.pc = "returned"
        /\ \A i \in Indices(Requests) :
               /\ Requests[i].status = 200 =>
                      i = Len(Requests) /\ acq.pc = "returned" /\ acq.result = "json"
               /\ (Requests[i].status # 200 /\ ~Retried(Requests[i].status)) =>
                      i = Len(Requests) /\ acq.pc = "returned" /\ acq.result = "None"
        /\ (acq.pc = "returned" /\ (Len(Requests) = 0 \/ LastStatus # 200)) =>
               acq.result = "None"

\* every attempt of a call was rate limited or failed and the call returned None
C27_Witness ==
    /\ acq.client \in {"OpenSky", "AviationStack", "Amadeus"}
    /\ acq.pc = "returned" /\ acq.result = "None"
    /\ Len(Requests) = MAX_API_RETRIES
    /\ \A i \in Indices(Requests) : Requests[i].status \in {429, RequestFailed}
    /\ \E i \in Indices(Requests) : Requests[i].status = 429

\* the sleeps of the rate-limited attempts: min(2^attempt, 60)
ExpectedWaits ==
    LET limited == SelectSeq([j \in Indices(Requests) |-> j],
                             LAMBDA j : Requests[j].status = 429)
    IN  [i \in Indices(limited) |-> Min(2 ^ (limited[i] - 1), 60)]

EntersSearch == acq'.calls = acq.calls + 1 /\ acq'.client = "Amadeus"

\* a step that sends a request of search_flight_offers
SendsSearch == acq.client = "Amadeus" /\ Len(acq'.requests) = Len(acq.requests) + 1

\* C29: entering search_flight_offers, _get_access_token makes no POST iff a
\* token is cached and the time is before token_expires, and then the cached
\* token is used; no request carries a token grant that was answered with
\* 401 before; after a 401 a POST is made, the next attempt carries the token
\* it granted, and without a grant the call returns None at once
C29_TokenHandling ==
    [][/\ EntersSearch =>
            /\ acq'.posts = acq.posts <=>
                   (acq.token # NoToken /\ acq.now < acq.token_expires)
            /\ acq'.posts = acq.posts =>
                   /\ acq'.pc = "loop" /\ acq'.header = acq.token
                   /\ acq'.headerGrant = acq.tokenGrant
            /\ (acq'.posts # acq.posts /\ acq'.grants = acq.grants) =>
                   acq'.pc = "returned" /\ acq'.result = "None"
       /\ SendsSearch =>
            /\ acq.header # NoToken
            /\ acq.headerGrant \notin acq.rejected
            /\ acq'.requests[Len(acq'.requests)].status = 401 =>
                   /\ acq.headerGrant \in acq'.rejected
                   /\ acq'.posts = acq.posts + 1
                   /\ IF acq'.grants = acq.grants
                      THEN /\ acq'.pc = "returned" /\ acq'.result = "None"
                           /\ acq'.token = NoToken
                      ELSE /\ acq'.headerGrant = acq'.grants
                           /\ acq'.headerGrant \notin acq'.rejected
                           /\ acq'.header = acq'.token
      ]_vars

\* a second call found a cached token, it was rejected with 401 and the next
\* attempt carried a later grant
C29_Witness ==
    /\ acq.client = "Amadeus" /\ acq.calls = 2
    /\ Len(Requests) >= 2
    /\ Requests[1].status = 401 /\ Requests[1].grant = 1
    /\ Requests[2].grant = 2
    /\ acq.posts = 2

(***************************************************************************)
(* The dashboard session (app.py), SpecSession                             *)
(***************************************************************************)
\* the tables get_flight_data hands to the session here: no flight, a
\* domestic flight, a domestic and an international flight, with and
\* without prices
SessionTables ==
    {DataFrame(cols, records) :
        cols \in {AllColumns, AllColumns \ {"price"}},
        records \in {<<>>,
                     <<FlightRow("2024-01-06", "08:00", "SYD", "MEL", 40, "Qantas", 90, TRUE)>>,
                     <<FlightRow("2024-01-06", "08:00", "SYD", "MEL", 40, "Qantas", 90, TRUE),
                       FlightRow("2024-06-03", "08:00", "LAX", "MEL", 80, "Qantas", 90, FALSE)>>}}

\* the settings of the route type multiselect and of the price slider
\* (price_range = (0, 5000) without price data)
RouteTypes == SUBSET {"Domestic", "International"}
PriceRanges == {<<0, 20000>>, <<40, 40>>, <<80, 20000>>}

\* generate_mock_ai_insights(data): the facts each sentence is built from
generate_mock_ai_insights(data) ==
    LET has(k) == k \in DOMAIN data
        summary == data["summary"]
        in(k) == has("summary") /\ k \in DOMAIN summary
        opportunities == Head_n(data["market_opportunities"], 3)
        recommended == SelectSeq(opportunities,
            LAMBDA o : o.type \in {"high_demand_high_price", "seasonal_variation"})
        peak_months == Head_n(SortDescending(data["monthly_patterns"],
                                             LAMBDA m : m.flight_count), 2)
    IN  [trend_summary |->
            (IF in("domestic_percentage")
             THEN <<IF summary["domestic_percentage"] > 700 THEN "predominantly domestic"
                    ELSE "healthy mix", summary["domestic_percentage"]>>
             ELSE <<>>)
            \o (IF in("busiest_day") /\ in("busiest_month")
                THEN <<summary["busiest_day"], summary["busiest_month"]>> ELSE <<>>)
            \o (IF in("weekend_price_premium")
                THEN <<summary["weekend_price_premium"]>> ELSE <<>>),
         market_observations |->
            IF has("popular_routes")
            THEN LET routes == Head_n(data["popular_routes"], 5)
                 IN  [i \in Indices(routes) |-> <<routes[i].origin, routes[i].destination>>]
            ELSE <<>>,
         hostel_recommendations |->
            IF has("market_opportunities")
            THEN [i \in Indices(recommended) |->
                     <<recommended[i].type, recommended[i].destination>>]
            ELSE <<>>,
         seasonal_strategies |->
            IF has("monthly_patterns")
            THEN [i \in Indices(peak_months) |-> MonthName[peak_months[i].month]]
                 \o <<"package deals during shoulder seasons">>
            ELSE <<>>]

\* pd.DataFrame()
EmptyFrame == Table({}, FALSE, <<>>)

\* variant: the filters are applied to the table itself
filter_data_InPlace(data, route_types, price_range) ==
    IF data.isNone \/ Len(data.rows) = 0
    THEN [data |-> data, filtered |-> EmptyFrame, exc |-> "none"]
    ELSE LET both == {"Domestic", "International"} \subseteq route_types
             byRoute ==
                 IF both THEN data.rows
                 ELSE IF "Domestic" \in route_types
                 THEN RowsWhere(data.rows, LAMBDA r : r.is_domestic = TRUE)
                 ELSE IF "International" \in route_types
                 THEN RowsWhere(data.rows, LAMBDA r : r.is_domestic = FALSE)
                 ELSE data.rows
             byPrice ==
                 IF "price" \in data.cols
                 THEN RowsWhere(byRoute, LAMBDA r :
                          r.price # NaN /\ r.price >= price_range[1]
                                        /\ r.price <= price_range[2])
                 ELSE byRoute
         IN  IF ~both /\ route_types # {} /\ "is_domestic" \notin data.cols
             THEN [data |-> data, filtered |-> EmptyFrame, exc |-> "KeyError"]
             ELSE [data |-> [data EXCEPT !.rows = byPrice],
                   filtered |-> [data EXCEPT !.rows = byPrice], exc |-> "none"]

\* filter_data(data, route_types, price_range): the caller's table after the
\* call, the table returned and the exception raised
filter_data(data, route_types, price_range) ==
    IF data.isNone \/ Len(data.rows) = 0
    THEN [data |-> data, filtered |-> EmptyFrame, exc |-> "none"]
    ELSE LET both == {"Domestic", "International"} \subseteq route_types
             byRoute ==
                 IF both THEN data.rows
                 ELSE IF "Domestic" \in route_types
                 THEN RowsWhere(data.rows, LAMBDA r : r.is_domestic = TRUE)
                 ELSE IF "International" \in route_types
                 THEN RowsWhere(data.rows, LAMBDA r : r.is_domestic = FALSE)
                 ELSE data.rows
             byPrice ==
                 IF "price" \in data.cols
                 THEN RowsWhere(byRoute, LAMBDA r :
                          r.price # NaN /\ r.price >= price_range[1]
                                        /\ r.price <= price_range[2])
                 ELSE byRoute
         IN  IF ~both /\ route_types # {} /\ "is_domestic" \notin data.cols
             THEN [data |-> data, filtered |-> EmptyFrame, exc |-> "KeyError"]
             ELSE [data |-> data,
                   filtered |-> [data EXCEPT !.rows = byPrice], exc |-> "none"]

\* processor.load_data(data).run_all_analyses() on a new DataProcessor, for
\* each table and each outcome of apply on an empty frame
Processed ==
    [data \in SessionTables |->
        [emptyApplyRaises \in BOOLEAN |->
            run_all_analyses(load_data(NewProcessor, data), emptyApplyRaises)]]

\* the session state after the initialisation at the top of app.py; acq
\* holds data_loaded and the widget settings of the last script run
InitSession ==
    /\ raw_data = None
    /\ processed_data = None
    /\ insights = NoInsights
    /\ raised = "none"
    /\ lastOp = "init"
    /\ loads = 0
    /\ flight_data = <<>>
    /\ acq = [pc |-> "session", data_loaded |-> FALSE,
              route_type |-> {"Domestic", "International"},
              price_range |-> <<0, 20000>>]
    /\ NoPassCalled

\* a script run with the Load Data button pressed
PressLoadData ==
    /\ loads < MaxLoads
    /\ loads' = loads + 1
    /\ lastOp' = "Load Data"
    /\ \E data \in SessionTables, emptyApplyRaises \in BOOLEAN :
          \E processor \in {Processed[data][emptyApplyRaises]} :
              /\ acq' = [acq EXCEPT !.data_loaded = TRUE]
              /\ IF processor.exc # "none"
                 THEN /\ raw_data' = data
                      /\ insights' = insights
                      /\ raised' = processor.exc
                      /\ flight_data' = <<>>
                 ELSE /\ insights' = Put(get_insights(processor), "ai_insights",
                                         generate_mock_ai_insights(get_insights(processor)))
                      /\ \E shown \in {filter_data(data, acq.route_type, acq.price_range)} :
                            /\ raw_data' = shown.data
                            /\ flight_data' = shown.filtered.rows
                            /\ raised' = shown.exc
    /\ UNCHANGED <<processed_data, ran>>

\* a script run after a change of the route type or price range widgets
ChangeFilter ==
    /\ acq.data_loaded
    /\ lastOp' = "filter"
    /\ \E route_type \in RouteTypes, price_range \in PriceRanges :
          /\ acq' = [acq EXCEPT !.route_type = route_type, !.price_range = price_range]
          /\ \E shown \in {filter_data(raw_data, route_type, price_range)} :
                /\ raw_data' = shown.data
                /\ flight_data' = shown.filtered.rows
                /\ raised' = shown.exc
    /\ UNCHANGED <<processed_data, insights, loads, ran>>

\* a script run with Export CSV or Export Report pressed: the exports read
\* raw_data and insights, then the dashboard is drawn with the same settings
Export ==
    /\ acq.data_loaded
    /\ \E button \in {"Export CSV", "Export Report"} : lastOp' = button
    /\ \E shown \in {filter_data(raw_data, acq.route_type, acq.price_range)} :
          /\ raw_data' = shown.data
          /\ flight_data' = shown.filtered.rows
          /\ raised' = shown.exc
    /\ UNCHANGED <<processed_data, insights, loads, acq, ran>>

NextSession == PressLoadData \/ ChangeFilter \/ Export

SpecSession == InitSession /\ [][NextSession]_vars

\* the rows of a table within a price range
InPriceRange(data, price_range) ==
    IF "price" \in data.cols
    THEN RowsWhere(data.rows, LAMBDA r : r.price # NaN /\ r.price >= price_range[1]
                                                      /\ r.price <= price_range[2])
    ELSE data.rows

\* the InsightsDocument a session holds after loading a table
LoadedInsights(data) ==
    LET doc == get_insights(Processed[data][FALSE])
    IN  Put(doc, "ai_insights", generate_mock_ai_insights(doc))

\* C30: a script run other than Load Data leaves the session's raw_data and
\* insights as they were; after a Load Data run that raised nothing the
\* insights are those of the loaded table whatever the filter settings; and
\* with both or neither route type selected the table shown holds every row
\* of raw_data within the price range
C30_SessionFrame ==
    [][/\ lastOp' # "Load Data" => raw_data' = raw_data /\ insights' = insights
       /\ (lastOp' = "Load Data" /\ raised' = "none") =>
              insights' = LoadedInsights(raw_data')
       /\ (raised' = "none"
             /\ acq'.route_type \in {{}, {"Domestic", "International"}}) =>
              flight_data' = InPriceRange(raw_data', acq'.price_range)
      ]_vars

\* a filter that hides rows of a loaded table whose insights are held
C30_Witness ==
    /\ lastOp = "filter"
    /\ acq.route_type = {"Domestic"}
    /\ Len(raw_data.rows) = 2 /\ Len(flight_data) = 1
    /\ "summary" \in DOMAIN insights
    /\ insights["summary"]["total_flights"] = 2

====
